---- MODULE Spec2Model ----
(***************************************************************************)
(* Access resolution of sentry (src/sentry/auth/access.py): the Access     *)
(* evaluator hierarchy and the factory functions that build an evaluator   *)
(* from a request, a user, a membership or a bearer credential.            *)
(*                                                                         *)
(* The database and the collaborating services are the environment: the   *)
(* db_* variables hold the rows the code reads, and the environment        *)
(* actions change them.  A factory action records its call in `request`   *)
(* and the evaluator it returns in `access`.  The query methods are        *)
(* operators over an evaluator; those of the DbAccess family read the      *)
(* database when they are evaluated, as the lazily computed properties of  *)
(* a fresh evaluator do.  SSO state is carried by the code but read by no  *)
(* decision modelled here, and is left out.                                *)
(***************************************************************************)
EXTENDS Integers, FiniteSets, Sequences, TLC

VARIABLES
    db_member,      \* the OrganizationMember row of HumanUser in MemberOrg, or None
    db_open,        \* organizations whose flags.allow_joinleave is set
    db_omt,         \* OrganizationMemberTeam rows of db_member
    db_inactive,    \* [teams, projects]: ids whose status is not ACTIVE
    db_app,         \* the SentryApp whose proxy user is AppUser, or None
    db_team_roles,  \* organizations with the feature "organizations:team-roles"
    request,        \* the last factory call and its arguments
    access,         \* the evaluator that call returned
    observed,       \* what the caller has read from this evaluator so far
    process_groups, \* the frame of one _process_groups call and the queries it made
    u2f,            \* one U2fInterface: its config and what the last call returned
    db_group,       \* Group rows: the stored status and substatus of each group
    db_snooze,      \* GroupSnooze rows
    effects,        \* inbox entries, history records, activities, tasks and signals
    running,        \* the manage_issue_states calls in progress
    task            \* the frame of one clear_expired_snoozes run

vars ==
    <<db_member, db_open, db_omt, db_inactive, db_app, db_team_roles, request, access,
      observed, process_groups, u2f, db_group, db_snooze, effects, running, task>>

db_vars == <<db_member, db_open, db_omt, db_inactive, db_app, db_team_roles>>

access_vars == <<db_vars, request, access, observed>>

issue_vars == <<db_group, db_snooze, effects, running, task>>

\* The state outside sentry.auth.access.
other_vars == <<process_groups, u2f, issue_vars>>

(***************************************************************************)
(* Python's None, and a present optional value.                            *)
(***************************************************************************)
None == [none |-> TRUE]

Some(x) == [val |-> x]

(***************************************************************************)
(* Bounds of the model.                                                    *)
(***************************************************************************)
MaxOrg == 2

MaxTeam == 3

MaxProject == 3

MaxOmt == 1

MaxInactive == 1

Orgs == 1 .. MaxOrg

TeamIds == 1 .. MaxTeam

ProjectIds == 1 .. MaxProject

\* The organization the human user may be a member of.
MemberOrg == CHOOSE o \in Orgs : \A p \in Orgs : o <= p

TeamOrg(t) == ((t - 1) % MaxOrg) + 1

ProjectOrg(p) == ((p - 1) % MaxOrg) + 1

\* project.teams: the teams of the project's organization with an id up to its own.
ProjectTeams(p) == {t \in TeamIds : TeamOrg(t) = ProjectOrg(p) /\ t <= p}

(***************************************************************************)
(* Scopes, roles and users: static configuration.                          *)
(***************************************************************************)
SENTRY_SCOPES == {"org:read", "org:admin", "project:write"}

OrganizationRoles == {"member", "owner"}

\* roles.get(role).scopes
RoleScopes(role) ==
    IF role = "owner" THEN {"org:read", "org:admin"} ELSE {"org:read"}

\* roles.get(role).is_global
RoleIsGlobal(role) == role = "owner"

TeamRoles == {"contributor", "admin"}

\* OrganizationMemberTeam.get_scopes() / RpcTeamMember.scopes
TeamRoleScopes(role) == IF role = "admin" THEN {"project:write"} ELSE {}

\* The scope sets get_superuser_scopes may return (read-only or full superuser).
SuperuserScopeSets == {{"org:read"}, {"org:read", "org:admin"}}

\* sentry_app.scope_list of the one sentry app.
AppScopeList == {"project:write"}

AdminPermissions == {"broadcasts.admin"}

Permissions == {"broadcasts.admin", "users.admin"}

\* Users a request or a call may carry: a human, the sentry app's proxy user,
\* a deactivated human, and Django's AnonymousUser.
HumanUser ==
    [id |-> Some(1), is_active |-> TRUE, is_anonymous |-> FALSE,
     is_authenticated |-> TRUE, is_sentry_app |-> FALSE]

AppUser ==
    [id |-> Some(2), is_active |-> TRUE, is_anonymous |-> FALSE,
     is_authenticated |-> TRUE, is_sentry_app |-> TRUE]

InactiveUser ==
    [id |-> Some(3), is_active |-> FALSE, is_anonymous |-> FALSE,
     is_authenticated |-> TRUE, is_sentry_app |-> FALSE]

AnonymousUser ==
    [id |-> None, is_active |-> FALSE, is_anonymous |-> TRUE,
     is_authenticated |-> FALSE, is_sentry_app |-> FALSE]

RequestUsers == {HumanUser, AppUser, InactiveUser, AnonymousUser}

\* A requested scope list: absent, or any list of scopes.
ScopeLists == {None} \cup {Some(s) : s \in SUBSET SENTRY_SCOPES}

\* Bearer credentials: the internal system token, or a token bound to an organization.
SystemToken == [kind |-> "system", organization_id |-> None]

OrgToken(o) == [kind |-> "org_token", organization_id |-> Some(o)]

AuthTokens == {SystemToken} \cup {OrgToken(o) : o \in Orgs}

(***************************************************************************)
(* Objects read from the database.                                         *)
(***************************************************************************)
Team(t) ==
    [id |-> t, organization_id |-> TeamOrg(t),
     status |-> IF t \in db_inactive.teams THEN "PENDING_DELETION" ELSE "ACTIVE"]

Project(p) ==
    [id |-> p, organization_id |-> ProjectOrg(p),
     status |-> IF p \in db_inactive.projects THEN "PENDING_DELETION" ELSE "ACTIVE",
     teams |-> ProjectTeams(p)]

AllTeams == {Team(t) : t \in TeamIds}

AllProjects == {Project(p) : p \in ProjectIds}

\* Organization rows: the id and flags.allow_joinleave.
Organization(o) == [id |-> o, allow_joinleave |-> o \in db_open]

\* OrganizationMember.get_scopes(): the role's scopes and the membership's own.
get_scopes(member) == RoleScopes(member.role) \cup member.extra_scopes

\* OrganizationMember.objects.get(user_id=..., organization_id=...), None for DoesNotExist.
get_member(user_id, organization_id) ==
    IF db_member /= None /\ user_id = db_member.user_id
       /\ organization_id = db_member.organization_id
    THEN db_member
    ELSE None

\* The active team memberships of a member: OrganizationMemberTeam rows with
\* is_active and an ACTIVE team.
ActiveOmt(member) ==
    IF member = None \/ member /= db_member
    THEN {}
    ELSE {omt \in db_omt : omt.is_active /\ Team(omt.team).status = "ACTIVE"}

\* The RpcOrganizationMember of a member row: role, scopes, active team
\* memberships and the active projects of those teams.
summarize_member(member) ==
    [user_id |-> member.user_id,
     role |-> member.role,
     scopes |-> get_scopes(member),
     member_teams |->
        {[team_id |-> omt.team,
          role |-> Some([id |-> omt.role, scopes |-> TeamRoleScopes(omt.role)]),
          scopes |-> TeamRoleScopes(omt.role)] : omt \in ActiveOmt(member)},
     project_ids |->
        {p \in ProjectIds :
            Project(p).status = "ACTIVE"
            /\ \E omt \in ActiveOmt(member) : omt.team \in ProjectTeams(p)}]

\* The RpcUserOrganizationContext of an organization for a user id.
RpcUserOrganizationContext(organization_id, user_id) ==
    [organization |->
        [id |-> organization_id,
         allow_joinleave |-> organization_id \in db_open,
         teams |-> {t \in AllTeams : t.organization_id = organization_id},
         projects |-> {p \in AllProjects : p.organization_id = organization_id}],
     member |->
        LET om == get_member(user_id, organization_id)
        IN  IF om = None THEN None ELSE summarize_member(om),
     user_id |-> user_id]

\* access_service.get_permissions_for_user
get_permissions_for_user(user_id) ==
    IF user_id = HumanUser.id THEN AdminPermissions ELSE {}

\* access_service.get_user_auth_state(...).permissions: the user's admin
\* permissions when the session is elevated, none otherwise.
get_user_auth_state(user_id, is_superuser, is_staff) ==
    [permissions |->
        IF is_superuser \/ is_staff THEN get_permissions_for_user(user_id) ELSE {}]

(***************************************************************************)
(* Evaluators.                                                             *)
(***************************************************************************)
DbKinds ==
    {"OrganizationMemberAccess", "OrganizationGlobalAccess",
     "OrganizationGlobalMembership"}

RpcKinds ==
    {"RpcBackedAccess", "ApiBackedOrganizationGlobalAccess",
     "ApiOrganizationGlobalMembership"}

OrganizationlessKinds == {"OrganizationlessAccess", "SystemAccess", "NoAccess"}

\* `x or []` for an optional collection.
OrEmpty(opt) == IF opt = None THEN {} ELSE opt.val

\* `if scopes:` -- a scope list that is present and not empty.
Truthy(scopes) == scopes /= None /\ scopes.val /= {}

\* What an evaluator has memoized (functools.cached_property): a property
\* that was read holds Some(value), one that was not holds None.
NothingCached ==
    [team_memberships |-> None,
     team_ids_with_membership |-> None,
     project_ids_with_team_membership |-> None,
     accessible_team_ids |-> None,
     accessible_project_ids |-> None]

\* The data-access calls made to compute what an evaluator holds, by what
\* they fetch: the member's team memberships, the projects of those teams,
\* the teams and the projects of the organization, the user's permissions.
LookupKinds ==
    {"team_memberships", "team_projects", "organization_teams",
     "organization_projects", "permissions"}

NoLookups == [k \in LookupKinds |-> 0]

\* The evaluator after one more data-access call of this kind.
Looked(a, k) == [a EXCEPT !.lookups[k] = @ + 1]

OrganizationMemberAccess(member, scopes, permissions, scopes_upper_bound) ==
    [kind |-> "OrganizationMemberAccess",
     cached |-> NothingCached,
     lookups |-> NoLookups,
     member |-> member,
     organization_id |-> Some(member.organization_id),
     has_global_access |->
        Organization(member.organization_id).allow_joinleave
        \/ RoleIsGlobal(member.role),
     scopes |-> scopes,
     permissions |-> permissions,
     scopes_upper_bound |-> scopes_upper_bound]

OrganizationGlobalAccess(organization_id, scopes, member, permissions) ==
    [kind |-> "OrganizationGlobalAccess",
     cached |-> NothingCached,
     lookups |-> NoLookups,
     member |-> member,
     organization_id |-> Some(organization_id),
     has_global_access |-> TRUE,
     scopes |-> scopes,
     permissions |-> permissions,
     scopes_upper_bound |-> None]

OrganizationGlobalMembership(organization_id, scopes) ==
    [OrganizationGlobalAccess(organization_id, scopes, None, {})
        EXCEPT !.kind = "OrganizationGlobalMembership"]

RpcBackedAccess(rpc_user_organization_context, scopes_upper_bound, auth_state) ==
    [kind |-> "RpcBackedAccess",
     lookups |-> NoLookups,
     rpc_user_organization_context |-> rpc_user_organization_context,
     scopes_upper_bound |-> scopes_upper_bound,
     auth_state |-> auth_state]

ApiBackedOrganizationGlobalAccess(rpc_user_organization_context, auth_state, scopes) ==
    [kind |-> "ApiBackedOrganizationGlobalAccess",
     lookups |-> NoLookups,
     rpc_user_organization_context |-> rpc_user_organization_context,
     scopes_upper_bound |-> scopes,
     auth_state |-> auth_state]

ApiOrganizationGlobalMembership(rpc_user_organization_context, auth_state, scopes) ==
    [ApiBackedOrganizationGlobalAccess(rpc_user_organization_context, auth_state, scopes)
        EXCEPT !.kind = "ApiOrganizationGlobalMembership"]

OrganizationlessAccess(auth_state) ==
    [kind |-> "OrganizationlessAccess", lookups |-> NoLookups, auth_state |-> auth_state]

SystemAccess ==
    [kind |-> "SystemAccess", lookups |-> NoLookups, auth_state |-> [permissions |-> {}]]

NoAccess ==
    [kind |-> "NoAccess", lookups |-> NoLookups, auth_state |-> [permissions |-> {}]]

DEFAULT == NoAccess

(***************************************************************************)
(* Queries of an evaluator.  Each class's method is an operator named      *)
(* after it; the unprefixed operator dispatches on the evaluator's class.  *)
(***************************************************************************)
RpcBackedAccess_scopes(a) ==
    LET member == a.rpc_user_organization_context.member
    IN  IF member = None THEN OrEmpty(a.scopes_upper_bound)
        ELSE IF a.scopes_upper_bound = None THEN member.scopes
        ELSE member.scopes \cap a.scopes_upper_bound.val

ApiBackedOrganizationGlobalAccess_scopes(a) == OrEmpty(a.scopes_upper_bound)

access_scopes(a) ==
    CASE a.kind \in DbKinds -> a.scopes
      [] a.kind = "RpcBackedAccess" -> RpcBackedAccess_scopes(a)
      [] a.kind \in RpcKinds \ {"RpcBackedAccess"} ->
            ApiBackedOrganizationGlobalAccess_scopes(a)
      [] OTHER -> {}

access_permissions(a) ==
    IF a.kind \in DbKinds THEN a.permissions ELSE a.auth_state.permissions

has_scope(a, scope) == a.kind = "SystemAccess" \/ scope \in access_scopes(a)

has_permission(a, permission) ==
    a.kind = "SystemAccess" \/ permission \in access_permissions(a)

RpcBackedAccess_has_global_access(a) ==
    LET ctx == a.rpc_user_organization_context
    IN  \/ ctx.organization.allow_joinleave
        \/ (ctx.member /= None /\ RoleIsGlobal(ctx.member.role))

has_global_access(a) ==
    CASE a.kind \in DbKinds -> a.has_global_access
      [] a.kind = "RpcBackedAccess" -> RpcBackedAccess_has_global_access(a)
      [] a.kind \in RpcKinds \ {"RpcBackedAccess"} -> TRUE
      [] a.kind = "SystemAccess" -> TRUE
      [] OTHER -> FALSE

\* The organization an evaluator was built for, None when it has none.
organization_of(a) ==
    CASE a.kind \in DbKinds -> a.organization_id
      [] a.kind \in RpcKinds -> Some(a.rpc_user_organization_context.organization.id)
      [] OTHER -> None

\* The membership an evaluator carries, None when it has none.
member_of(a) ==
    CASE a.kind \in DbKinds -> a.member
      [] a.kind \in RpcKinds -> a.rpc_user_organization_context.member
      [] OTHER -> None

\* Variant of cached_property that computes the value on every read: C15
\* depends on the memoized value being the one returned.
recomputed_property(memo, value) == value

\* A cached_property: the memoized value when there is one, else the value
\* computed now.
cached_property(memo, value) == IF memo /= None THEN memo.val ELSE value

\* Variant of _team_memberships that queries the rows on every use: C16
\* depends on the rows being memoized.
team_memberships_queried(a) == ActiveOmt(a.member)

\* DbAccess._team_memberships: the rows, each with its team.
team_memberships(a) ==
    cached_property(a.cached.team_memberships, ActiveOmt(a.member))

DbAccess_team_ids_with_membership(a) ==
    cached_property(a.cached.team_ids_with_membership,
                    {omt.team : omt \in team_memberships(a)})

DbAccess_project_ids_with_team_membership(a) ==
    cached_property(
        a.cached.project_ids_with_team_membership,
        LET teams == {omt.team : omt \in team_memberships(a)}
        IN  IF teams = {} THEN {}
            ELSE {p \in ProjectIds :
                    Project(p).status = "ACTIVE" /\ ProjectTeams(p) \cap teams /= {}})

OrganizationGlobalAccess_accessible_team_ids(a) ==
    cached_property(
        a.cached.accessible_team_ids,
        {t \in TeamIds :
            Some(Team(t).organization_id) = a.organization_id
            /\ Team(t).status = "ACTIVE"})

OrganizationGlobalAccess_accessible_project_ids(a) ==
    cached_property(
        a.cached.accessible_project_ids,
        {p \in ProjectIds :
            Some(Project(p).organization_id) = a.organization_id
            /\ Project(p).status = "ACTIVE"})

RpcBackedAccess_team_ids_with_membership(a) ==
    LET member == a.rpc_user_organization_context.member
    IN  IF member = None THEN {} ELSE {mt.team_id : mt \in member.member_teams}

RpcBackedAccess_project_ids_with_team_membership(a) ==
    LET member == a.rpc_user_organization_context.member
    IN  IF member = None THEN {} ELSE member.project_ids

ApiBackedOrganizationGlobalAccess_accessible_team_ids(a) ==
    {t.id : t \in {x \in a.rpc_user_organization_context.organization.teams :
                        x.status = "ACTIVE"}}

ApiBackedOrganizationGlobalAccess_accessible_project_ids(a) ==
    {p.id : p \in {x \in a.rpc_user_organization_context.organization.projects :
                        x.status = "ACTIVE"}}

accessible_team_ids(a) ==
    CASE a.kind = "OrganizationMemberAccess" -> DbAccess_team_ids_with_membership(a)
      [] a.kind \in DbKinds \ {"OrganizationMemberAccess"} ->
            OrganizationGlobalAccess_accessible_team_ids(a)
      [] a.kind = "RpcBackedAccess" -> RpcBackedAccess_team_ids_with_membership(a)
      [] a.kind \in RpcKinds \ {"RpcBackedAccess"} ->
            ApiBackedOrganizationGlobalAccess_accessible_team_ids(a)
      [] OTHER -> {}

accessible_project_ids(a) ==
    CASE a.kind = "OrganizationMemberAccess" ->
            DbAccess_project_ids_with_team_membership(a)
      [] a.kind \in DbKinds \ {"OrganizationMemberAccess"} ->
            OrganizationGlobalAccess_accessible_project_ids(a)
      [] a.kind = "RpcBackedAccess" ->
            RpcBackedAccess_project_ids_with_team_membership(a)
      [] a.kind \in RpcKinds \ {"RpcBackedAccess"} ->
            ApiBackedOrganizationGlobalAccess_accessible_project_ids(a)
      [] OTHER -> {}

\* Variant of team_ids_with_membership without the override of the
\* simulated-membership classes: C22 depends on the override.
team_ids_with_membership_not_overridden(a) ==
    CASE a.kind \in {"OrganizationMemberAccess", "OrganizationGlobalAccess",
                     "OrganizationGlobalMembership"} ->
            DbAccess_team_ids_with_membership(a)
      [] a.kind \in {"RpcBackedAccess", "ApiBackedOrganizationGlobalAccess",
                     "ApiOrganizationGlobalMembership"} ->
            RpcBackedAccess_team_ids_with_membership(a)
      [] OTHER -> {}

team_ids_with_membership(a) ==
    CASE a.kind \in {"OrganizationMemberAccess", "OrganizationGlobalAccess"} ->
            DbAccess_team_ids_with_membership(a)
      [] a.kind = "RpcBackedAccess" \/ a.kind = "ApiBackedOrganizationGlobalAccess" ->
            RpcBackedAccess_team_ids_with_membership(a)
      [] a.kind \in {"OrganizationGlobalMembership", "ApiOrganizationGlobalMembership"} ->
            accessible_team_ids(a)
      [] OTHER -> {}

project_ids_with_team_membership(a) ==
    CASE a.kind \in {"OrganizationMemberAccess", "OrganizationGlobalAccess"} ->
            DbAccess_project_ids_with_team_membership(a)
      [] a.kind = "RpcBackedAccess" \/ a.kind = "ApiBackedOrganizationGlobalAccess" ->
            RpcBackedAccess_project_ids_with_team_membership(a)
      [] a.kind \in {"OrganizationGlobalMembership", "ApiOrganizationGlobalMembership"} ->
            accessible_project_ids(a)
      [] OTHER -> {}

\* Variant of OrganizationMemberAccess.has_team_access whose global-access
\* branch does not compare organizations: C25 depends on the comparison.
OrganizationMemberAccess_has_team_access_any_organization(a, team) ==
    IF team.status /= "ACTIVE" THEN FALSE
    ELSE IF a.has_global_access THEN TRUE
    ELSE team.id \in DbAccess_team_ids_with_membership(a)

OrganizationMemberAccess_has_team_access(a, team) ==
    IF team.status /= "ACTIVE" THEN FALSE
    ELSE IF a.has_global_access /\ a.member.organization_id = team.organization_id
    THEN TRUE
    ELSE team.id \in DbAccess_team_ids_with_membership(a)

\* Variant of OrganizationMemberAccess.has_project_access that reaches every
\* active project of the member's organization: C4 depends on the lookup in
\* project_ids_with_team_membership.
OrganizationMemberAccess_has_project_access_any(a, project) ==
    project.status = "ACTIVE" /\ a.member.organization_id = project.organization_id

OrganizationMemberAccess_has_project_access(a, project) ==
    IF project.status /= "ACTIVE" THEN FALSE
    ELSE IF a.has_global_access /\ a.member.organization_id = project.organization_id
    THEN TRUE
    ELSE project.id \in DbAccess_project_ids_with_team_membership(a)

\* Variant of OrganizationGlobalAccess.has_team_access without the status
\* test: C5 depends on it.
OrganizationGlobalAccess_has_team_access_any_status(a, team) ==
    Some(team.organization_id) = a.organization_id

OrganizationGlobalAccess_has_team_access(a, team) ==
    Some(team.organization_id) = a.organization_id /\ team.status = "ACTIVE"

OrganizationGlobalAccess_has_project_access(a, project) ==
    Some(project.organization_id) = a.organization_id /\ project.status = "ACTIVE"

\* Variant of RpcBackedAccess.has_team_access without the global-access
\* branch: C3 depends on it.
RpcBackedAccess_has_team_access_by_membership(a, team) ==
    team.status = "ACTIVE" /\ team.id \in RpcBackedAccess_team_ids_with_membership(a)

RpcBackedAccess_has_team_access(a, team) ==
    IF team.status /= "ACTIVE" THEN FALSE
    ELSE IF RpcBackedAccess_has_global_access(a)
            /\ a.rpc_user_organization_context.organization.id = team.organization_id
    THEN TRUE
    ELSE team.id \in RpcBackedAccess_team_ids_with_membership(a)

RpcBackedAccess_has_project_access(a, project) ==
    IF project.status /= "ACTIVE" THEN FALSE
    ELSE IF RpcBackedAccess_has_global_access(a)
            /\ a.rpc_user_organization_context.member /= None
            /\ a.rpc_user_organization_context.organization.id = project.organization_id
    THEN TRUE
    ELSE project.id \in RpcBackedAccess_project_ids_with_team_membership(a)

ApiBackedOrganizationGlobalAccess_has_team_access(a, team) ==
    team.organization_id = a.rpc_user_organization_context.organization.id
    /\ team.status = "ACTIVE"

ApiBackedOrganizationGlobalAccess_has_project_access(a, project) ==
    project.organization_id = a.rpc_user_organization_context.organization.id
    /\ project.status = "ACTIVE"

\* Variant of OrganizationlessAccess.has_team_access that grants every active
\* team: C14 depends on the constant answer.
OrganizationlessAccess_has_team_access_active(a, team) == team.status = "ACTIVE"

OrganizationlessAccess_has_team_access(a, team) == FALSE

OrganizationlessAccess_has_project_access(a, project) == FALSE

\* Variant of SystemAccess without its own has_team_access, which then is the
\* inherited one: C13 depends on the override.
SystemAccess_has_team_access_inherited(a, team) ==
    OrganizationlessAccess_has_team_access(a, team)

SystemAccess_has_team_access(a, team) == TRUE

SystemAccess_has_project_access(a, project) == TRUE

has_team_access(a, team) ==
    CASE a.kind = "OrganizationMemberAccess" ->
            OrganizationMemberAccess_has_team_access(a, team)
      [] a.kind \in DbKinds \ {"OrganizationMemberAccess"} ->
            OrganizationGlobalAccess_has_team_access(a, team)
      [] a.kind = "RpcBackedAccess" -> RpcBackedAccess_has_team_access(a, team)
      [] a.kind \in RpcKinds \ {"RpcBackedAccess"} ->
            ApiBackedOrganizationGlobalAccess_has_team_access(a, team)
      [] a.kind = "SystemAccess" -> SystemAccess_has_team_access(a, team)
      [] OTHER -> OrganizationlessAccess_has_team_access(a, team)

has_project_access(a, project) ==
    CASE a.kind = "OrganizationMemberAccess" ->
            OrganizationMemberAccess_has_project_access(a, project)
      [] a.kind \in DbKinds \ {"OrganizationMemberAccess"} ->
            OrganizationGlobalAccess_has_project_access(a, project)
      [] a.kind = "RpcBackedAccess" -> RpcBackedAccess_has_project_access(a, project)
      [] a.kind \in RpcKinds \ {"RpcBackedAccess"} ->
            ApiBackedOrganizationGlobalAccess_has_project_access(a, project)
      [] a.kind = "SystemAccess" -> SystemAccess_has_project_access(a, project)
      [] OTHER -> OrganizationlessAccess_has_project_access(a, project)

(***************************************************************************)
(* Team and project scopes, memberships and roles.                         *)
(***************************************************************************)
\* The module-level has_role_in_organization: an OrganizationMember of an
\* active user with this role, user and organization exists.
has_role_in_organization(role, organization_id, user_id) ==
    /\ db_member /= None
    /\ db_member.user_id = user_id
    /\ db_member.organization_id = organization_id
    /\ db_member.role = role
    /\ \E u \in RequestUsers : u.id = user_id /\ u.is_active

DbAccess_has_role_in_organization(a, role, organization_id, user_id) ==
    IF a.member /= None /\ a.member.user_id /= None
    THEN has_role_in_organization(role, organization_id, a.member.user_id)
    ELSE FALSE

RpcBackedAccess_has_role_in_organization(a, role, organization_id, user_id) ==
    LET member == a.rpc_user_organization_context.member
    IN  IF member /= None /\ member.user_id /= None
        THEN has_role_in_organization(role, organization_id, member.user_id)
        ELSE FALSE

OrganizationlessAccess_has_role_in_organization(a, role, organization_id, user_id) ==
    IF user_id /= None
    THEN has_role_in_organization(role, organization_id, user_id)
    ELSE FALSE

Access_has_role_in_organization(a, role, organization_id, user_id) ==
    CASE a.kind \in DbKinds ->
            DbAccess_has_role_in_organization(a, role, organization_id, user_id)
      [] a.kind \in RpcKinds ->
            RpcBackedAccess_has_role_in_organization(a, role, organization_id, user_id)
      [] OTHER ->
            OrganizationlessAccess_has_role_in_organization(
                a, role, organization_id, user_id)

\* team_scopes & self.scopes_upper_bound, applied `if self.scopes_upper_bound:`
capped_team_scopes(team_scopes, scopes_upper_bound) ==
    IF Truthy(scopes_upper_bound) THEN team_scopes \cap scopes_upper_bound.val
    ELSE team_scopes

\* self._team_memberships.get(team)
DbAccess_get_team_membership(a, team) ==
    LET found == {omt \in team_memberships(a) : omt.team = team.id}
    IN  IF found = {} THEN None ELSE Some(CHOOSE omt \in found : TRUE)

RpcBackedAccess_get_team_membership(a, team_id) ==
    LET member == a.rpc_user_organization_context.member
    IN  IF member = None THEN None
        ELSE LET found == {mt \in member.member_teams : mt.team_id = team_id}
             IN  IF found = {} THEN None ELSE Some(CHOOSE mt \in found : TRUE)

DbAccess_has_team_scope(a, team, scope) ==
    IF ~has_team_access(a, team) THEN FALSE
    ELSE IF has_scope(a, scope) THEN TRUE
    ELSE LET membership == DbAccess_get_team_membership(a, team)
         IN  IF membership = None THEN FALSE
             ELSE scope \in capped_team_scopes(
                    TeamRoleScopes(membership.val.role), a.scopes_upper_bound)

RpcBackedAccess_has_team_scope(a, team, scope) ==
    IF ~has_team_access(a, team) THEN FALSE
    ELSE IF has_scope(a, scope) THEN TRUE
    ELSE IF a.rpc_user_organization_context.member = None THEN FALSE
    ELSE LET team_membership == RpcBackedAccess_get_team_membership(a, team.id)
         IN  IF team_membership = None THEN FALSE
             ELSE scope \in capped_team_scopes(
                    team_membership.val.scopes, a.scopes_upper_bound)

OrganizationlessAccess_has_team_scope(a, team, scope) == FALSE

has_team_scope(a, team, scope) ==
    CASE a.kind \in DbKinds -> DbAccess_has_team_scope(a, team, scope)
      [] a.kind \in RpcKinds -> RpcBackedAccess_has_team_scope(a, team, scope)
      [] OTHER -> OrganizationlessAccess_has_team_scope(a, team, scope)

DbAccess_get_team_role(a, team) ==
    LET team_member == DbAccess_get_team_membership(a, team)
    IN  IF team_member /= None THEN Some(team_member.val.role) ELSE None

RpcBackedAccess_get_team_role(a, team) ==
    LET team_member == RpcBackedAccess_get_team_membership(a, team.id)
    IN  IF team_member /= None THEN team_member.val.role ELSE None

get_team_role(a, team) ==
    CASE a.kind \in DbKinds -> DbAccess_get_team_role(a, team)
      [] a.kind \in RpcKinds -> RpcBackedAccess_get_team_role(a, team)
      [] OTHER -> None

\* Variant of DbAccess.has_any_project_scope that grants team-role scopes
\* whatever the feature flag: C24 depends on the flag.
DbAccess_has_any_project_scope_unflagged(a, project, scopes) ==
    IF ~has_project_access(a, project) THEN FALSE
    ELSE IF \E scope \in scopes : has_scope(a, scope) THEN TRUE
    ELSE IF a.member /= None
    THEN LET memberships ==
                {omt \in team_memberships(a) : omt.team \in project.teams}
         IN  \E membership \in memberships, scope \in scopes :
                scope \in capped_team_scopes(
                    TeamRoleScopes(membership.role), a.scopes_upper_bound)
    ELSE FALSE

DbAccess_has_any_project_scope(a, project, scopes) ==
    IF ~has_project_access(a, project) THEN FALSE
    ELSE IF \E scope \in scopes : has_scope(a, scope) THEN TRUE
    ELSE IF a.member /= None /\ a.member.organization_id \in db_team_roles
    THEN LET memberships ==
                {omt \in team_memberships(a) : omt.team \in project.teams}
         IN  \E membership \in memberships, scope \in scopes :
                scope \in capped_team_scopes(
                    TeamRoleScopes(membership.role), a.scopes_upper_bound)
    ELSE FALSE

\* Variant of RpcBackedAccess.has_any_project_scope that grants team-role
\* scopes whatever the feature flag: C21 depends on both evaluators testing it.
RpcBackedAccess_has_any_project_scope_unflagged(a, project, scopes) ==
    LET ctx == a.rpc_user_organization_context
    IN  IF ~has_project_access(a, project) THEN FALSE
        ELSE IF \E scope \in scopes : has_scope(a, scope) THEN TRUE
        ELSE IF ctx.member /= None
        THEN \E member_team \in ctx.member.member_teams, scope \in scopes :
                /\ member_team.role /= None
                /\ member_team.team_id \in project.teams
                /\ scope \in capped_team_scopes(
                        member_team.role.val.scopes, a.scopes_upper_bound)
        ELSE FALSE

RpcBackedAccess_has_any_project_scope(a, project, scopes) ==
    LET ctx == a.rpc_user_organization_context
    IN  IF ~has_project_access(a, project) THEN FALSE
        ELSE IF \E scope \in scopes : has_scope(a, scope) THEN TRUE
        ELSE IF ctx.member /= None /\ ctx.organization.id \in db_team_roles
        THEN \E member_team \in ctx.member.member_teams, scope \in scopes :
                /\ member_team.role /= None
                /\ member_team.team_id \in project.teams
                /\ scope \in capped_team_scopes(
                        member_team.role.val.scopes, a.scopes_upper_bound)
        ELSE FALSE

OrganizationlessAccess_has_any_project_scope(a, project, scopes) ==
    IF ~has_project_access(a, project) THEN FALSE
    ELSE \E scope \in scopes : has_scope(a, scope)

has_any_project_scope(a, project, scopes) ==
    CASE a.kind \in DbKinds -> DbAccess_has_any_project_scope(a, project, scopes)
      [] a.kind \in RpcKinds -> RpcBackedAccess_has_any_project_scope(a, project, scopes)
      [] OTHER -> OrganizationlessAccess_has_any_project_scope(a, project, scopes)

has_project_scope(a, project, scope) == has_any_project_scope(a, project, {scope})

has_team_membership(a, team) ==
    IF a.kind \in {"OrganizationGlobalMembership", "ApiOrganizationGlobalMembership"}
    THEN has_team_access(a, team)
    ELSE team.id \in team_ids_with_membership(a)

has_project_membership(a, project) ==
    IF a.kind \in {"OrganizationGlobalMembership", "ApiOrganizationGlobalMembership"}
    THEN has_project_access(a, project)
    ELSE project.id \in project_ids_with_team_membership(a)

has_projects_access(a, projects) ==
    \A project \in projects : has_project_access(a, project)

(***************************************************************************)
(* What a read or a call leaves behind in the evaluator: the properties    *)
(* it memoized and the data-access calls it made.  The operators above     *)
(* give the value returned; the ones below give the evaluator afterwards.  *)
(***************************************************************************)
\* The evaluator after one data-access call of each kind in `ks`.
LookedAll(a, ks) ==
    [a EXCEPT !.lookups =
        [k \in LookupKinds |-> IF k \in ks THEN a.lookups[k] + 1 ELSE a.lookups[k]]]

\* Variant of memoize that runs the lookups on every read: C17 depends on
\* the memoized value being returned without a lookup.
memoize_every_read(a, name, value, ks) ==
    LookedAll([a EXCEPT !.cached[name] = Some(value)], ks)

\* functools.cached_property.__get__: the first read computes the value,
\* running the lookups `ks`, and stores it; later reads find it stored.
memoize(a, name, value, ks) ==
    IF a.cached[name] /= None THEN a
    ELSE LookedAll([a EXCEPT !.cached[name] = Some(value)], ks)

read_team_memberships(a) ==
    memoize(a, "team_memberships", team_memberships(a),
            IF a.member = None THEN {} ELSE {"team_memberships"})

read_DbAccess_team_ids_with_membership(a) ==
    IF a.cached.team_ids_with_membership /= None THEN a
    ELSE memoize(read_team_memberships(a), "team_ids_with_membership",
                 DbAccess_team_ids_with_membership(a), {})

read_DbAccess_project_ids_with_team_membership(a) ==
    IF a.cached.project_ids_with_team_membership /= None THEN a
    ELSE LET teams == {omt.team : omt \in team_memberships(a)}
         IN  memoize(read_team_memberships(a), "project_ids_with_team_membership",
                     DbAccess_project_ids_with_team_membership(a),
                     IF teams = {} THEN {} ELSE {"team_projects"})

read_OrganizationGlobalAccess_accessible_team_ids(a) ==
    memoize(a, "accessible_team_ids",
            OrganizationGlobalAccess_accessible_team_ids(a), {"organization_teams"})

read_OrganizationGlobalAccess_accessible_project_ids(a) ==
    memoize(a, "accessible_project_ids",
            OrganizationGlobalAccess_accessible_project_ids(a),
            {"organization_projects"})

read_accessible_team_ids(a) ==
    CASE a.kind = "OrganizationMemberAccess" ->
            read_DbAccess_team_ids_with_membership(a)
      [] a.kind \in DbKinds \ {"OrganizationMemberAccess"} ->
            read_OrganizationGlobalAccess_accessible_team_ids(a)
      [] OTHER -> a

read_accessible_project_ids(a) ==
    CASE a.kind = "OrganizationMemberAccess" ->
            read_DbAccess_project_ids_with_team_membership(a)
      [] a.kind \in DbKinds \ {"OrganizationMemberAccess"} ->
            read_OrganizationGlobalAccess_accessible_project_ids(a)
      [] OTHER -> a

read_team_ids_with_membership(a) ==
    CASE a.kind \in {"OrganizationMemberAccess", "OrganizationGlobalAccess"} ->
            read_DbAccess_team_ids_with_membership(a)
      [] a.kind = "OrganizationGlobalMembership" -> read_accessible_team_ids(a)
      [] OTHER -> a

read_project_ids_with_team_membership(a) ==
    CASE a.kind \in {"OrganizationMemberAccess", "OrganizationGlobalAccess"} ->
            read_DbAccess_project_ids_with_team_membership(a)
      [] a.kind = "OrganizationGlobalMembership" -> read_accessible_project_ids(a)
      [] OTHER -> a

\* The derived sets of an evaluator.
IdSets ==
    {"team_ids_with_membership", "project_ids_with_team_membership",
     "accessible_team_ids", "accessible_project_ids"}

DerivedSets == IdSets \cup {"scopes", "permissions"}

\* getattr(access, name): the value read.
getattr(a, name) ==
    CASE name = "team_ids_with_membership" -> team_ids_with_membership(a)
      [] name = "project_ids_with_team_membership" ->
            project_ids_with_team_membership(a)
      [] name = "accessible_team_ids" -> accessible_team_ids(a)
      [] name = "accessible_project_ids" -> accessible_project_ids(a)
      [] name = "scopes" -> access_scopes(a)
      [] name = "permissions" -> access_permissions(a)

\* The evaluator after getattr(access, name).
read(a, name) ==
    CASE name = "team_ids_with_membership" -> read_team_ids_with_membership(a)
      [] name = "project_ids_with_team_membership" ->
            read_project_ids_with_team_membership(a)
      [] name = "accessible_team_ids" -> read_accessible_team_ids(a)
      [] name = "accessible_project_ids" -> read_accessible_project_ids(a)
      [] OTHER -> a

\* The evaluator after each query.
after_has_team_access(a, team) ==
    IF /\ a.kind = "OrganizationMemberAccess"
       /\ team.status = "ACTIVE"
       /\ ~(a.has_global_access /\ a.member.organization_id = team.organization_id)
    THEN read_team_ids_with_membership(a)
    ELSE a

after_has_project_access(a, project) ==
    IF /\ a.kind = "OrganizationMemberAccess"
       /\ project.status = "ACTIVE"
       /\ ~(a.has_global_access /\ a.member.organization_id = project.organization_id)
    THEN read_project_ids_with_team_membership(a)
    ELSE a

after_has_team_scope(a, team, scope) ==
    LET b == after_has_team_access(a, team)
    IN  IF a.kind \notin DbKinds THEN a
        ELSE IF ~has_team_access(a, team) \/ has_scope(a, scope) THEN b
        ELSE read_team_memberships(b)

after_get_team_role(a, team) ==
    IF a.kind \in DbKinds THEN read_team_memberships(a) ELSE a

after_has_any_project_scope(a, project, scopes) ==
    LET b == after_has_project_access(a, project)
    IN  IF ~has_project_access(a, project) \/ \E scope \in scopes : has_scope(a, scope)
        THEN b
        ELSE IF /\ a.kind \in DbKinds
                /\ a.member /= None
                /\ a.member.organization_id \in db_team_roles
                /\ project.teams /= {}
        THEN read_team_memberships(b)
        ELSE b

\* The data-access calls a query makes on every call, which no evaluator
\* memoizes.
has_role_in_organization_queries(a, role, organization_id, user_id) ==
    LET member ==
            CASE a.kind \in DbKinds -> a.member
              [] a.kind \in RpcKinds -> a.rpc_user_organization_context.member
              [] OTHER -> [user_id |-> user_id]
    IN  IF member /= None /\ member.user_id /= None
        THEN {"OrganizationMember.objects.filter"}
        ELSE {}

has_any_project_scope_queries(a, project, scopes) ==
    LET member ==
            CASE a.kind \in DbKinds -> a.member
              [] a.kind \in RpcKinds -> a.rpc_user_organization_context.member
              [] OTHER -> None
        organization_id ==
            IF a.kind \in DbKinds THEN member.organization_id
            ELSE a.rpc_user_organization_context.organization.id
    IN  IF ~has_project_access(a, project) \/ \E scope \in scopes : has_scope(a, scope)
        THEN {}
        ELSE IF member = None THEN {}
        ELSE IF organization_id \in db_team_roles
        THEN {"features.has", "project.teams"}
        ELSE {"features.has"}

(***************************************************************************)
(* The factory functions.                                                  *)
(***************************************************************************)
normalize_valid_user(user) ==
    IF user = None \/ user.is_anonymous \/ ~user.is_active THEN None ELSE user

organizationless_access(user, is_superuser, is_staff) ==
    Looked(OrganizationlessAccess(get_user_auth_state(user.id, is_superuser, is_staff)),
           "permissions")

\* Variant of from_member that does not intersect the membership's scopes
\* with the requested scope list: C2 depends on the intersection.
from_member_unbounded(member, scopes, is_superuser, is_staff) ==
    OrganizationMemberAccess(member, get_scopes(member), {}, scopes)

\* Variant of from_member that reads the user's permissions whatever the
\* elevation: C11 depends on the test of is_superuser and is_staff.
from_member_with_permissions(member, scopes, is_superuser, is_staff) ==
    OrganizationMemberAccess(
        member,
        IF scopes /= None THEN scopes.val \cap get_scopes(member) ELSE get_scopes(member),
        IF member.user_id /= None THEN get_permissions_for_user(member.user_id) ELSE {},
        scopes)

from_member(member, scopes, is_superuser, is_staff) ==
    LET scope_intersection ==
            IF scopes /= None THEN scopes.val \cap get_scopes(member)
            ELSE get_scopes(member)
        elevated == (is_superuser \/ is_staff) /\ member.user_id /= None
        perms == IF elevated THEN get_permissions_for_user(member.user_id) ELSE {}
        built == OrganizationMemberAccess(member, scope_intersection, perms, scopes)
    IN  IF elevated THEN Looked(built, "permissions") ELSE built

from_rpc_member(rpc_user_organization_context, scopes, is_superuser, is_staff, auth_state) ==
    IF rpc_user_organization_context.user_id = None THEN DEFAULT
    ELSE IF auth_state /= None
    THEN RpcBackedAccess(rpc_user_organization_context, scopes, auth_state.val)
    ELSE Looked(
            RpcBackedAccess(
                rpc_user_organization_context,
                scopes,
                get_user_auth_state(rpc_user_organization_context.user_id,
                                    is_superuser, is_staff)),
            "permissions")

\* Variant of from_user that looks the membership up for a user that is not
\* active: C12 depends on normalize_valid_user.
from_user_any_user(user, organization, scopes, is_superuser, is_staff) ==
    IF user = None \/ user.is_anonymous THEN DEFAULT
    ELSE IF organization = None
    THEN organizationless_access(user, is_superuser, is_staff)
    ELSE LET om == get_member(user.id, organization.val)
         IN  IF om = None
             THEN organizationless_access(user, is_superuser, is_staff)
             ELSE from_member(om, scopes, is_superuser, is_staff)

from_user(user, organization, scopes, is_superuser, is_staff) ==
    LET valid == normalize_valid_user(user)
    IN  IF valid = None THEN DEFAULT
        ELSE IF organization = None
        THEN organizationless_access(valid, is_superuser, is_staff)
        ELSE LET om == get_member(valid.id, organization.val)
             IN  IF om = None
                 THEN organizationless_access(valid, is_superuser, is_staff)
                 ELSE from_member(om, scopes, is_superuser, is_staff)

from_user_and_rpc_user_org_context(user, rpc_user_org_context, is_superuser, is_staff, scopes, auth_state) ==
    LET valid == normalize_valid_user(user)
    IN  IF valid = None THEN DEFAULT
        ELSE IF rpc_user_org_context = None \/ rpc_user_org_context.member = None
        THEN organizationless_access(valid, is_superuser, is_staff)
        ELSE from_rpc_member(
                rpc_user_org_context, scopes, is_superuser, is_staff, auth_state)

is_system_auth(auth) == auth.kind = "system"

\* Variant of from_auth that does not compare the token's organization with
\* the requested one: C9 depends on the comparison.
from_auth_any_organization(auth, organization_id) ==
    IF is_system_auth(auth) THEN SystemAccess
    ELSE OrganizationGlobalAccess(organization_id, SENTRY_SCOPES, None, {})

from_auth(auth, organization_id) ==
    IF is_system_auth(auth) THEN SystemAccess
    ELSE IF auth.organization_id = Some(organization_id)
    THEN OrganizationGlobalAccess(auth.organization_id.val, SENTRY_SCOPES, None, {})
    ELSE DEFAULT

from_rpc_auth(auth, rpc_user_org_context) ==
    IF is_system_auth(auth) THEN SystemAccess
    ELSE IF auth.organization_id = Some(rpc_user_org_context.organization.id)
    THEN ApiBackedOrganizationGlobalAccess(
            rpc_user_org_context, [permissions |-> {}], Some(SENTRY_SCOPES))
    ELSE DEFAULT

\* SentryApp.objects.filter(proxy_user=user): the app whose proxy user this is.
sentry_app_of(user_id) ==
    IF db_app /= None /\ user_id = AppUser.id THEN db_app ELSE None

\* Variant of _from_sentry_app that does not look for the installation on the
\* organization: C10 depends on the lookup.
from_sentry_app_uninstalled(user, organization) ==
    IF organization = None THEN NoAccess
    ELSE LET sentry_app == sentry_app_of(user.id)
         IN  IF sentry_app = None THEN NoAccess
             ELSE OrganizationGlobalMembership(organization.val, sentry_app.scope_list)

from_sentry_app(user, organization) ==
    IF organization = None THEN NoAccess
    ELSE LET sentry_app == sentry_app_of(user.id)
         IN  IF sentry_app = None THEN NoAccess
             ELSE IF organization.val \notin sentry_app.installed_on THEN NoAccess
             ELSE OrganizationGlobalMembership(organization.val, sentry_app.scope_list)

\* app_service.find_installation_by_proxy_user(proxy_user_id, organization_id)
find_installation_by_proxy_user(proxy_user_id, organization_id) ==
    LET sentry_app == sentry_app_of(proxy_user_id)
    IN  IF sentry_app /= None /\ organization_id \in sentry_app.installed_on
        THEN [sentry_app |-> sentry_app]
        ELSE None

from_rpc_sentry_app(context) ==
    IF context = None \/ context.user_id = None THEN NoAccess
    ELSE LET installation ==
                find_installation_by_proxy_user(context.user_id, context.organization.id)
         IN  IF installation = None THEN NoAccess
             ELSE ApiOrganizationGlobalMembership(
                    context, [permissions |-> {}],
                    Some(installation.sentry_app.scope_list))

\* A request: the user, the bearer credential (request.auth), what
\* is_active_superuser and is_active_staff answer for it, and what
\* get_superuser_scopes answers for its user.
\* Variant of from_request that tests the superuser session before the
\* sentry-app user: C6 depends on the order of the two tests.
from_request_superuser_first(req, organization, scopes) ==
    IF organization = None
    THEN from_user(req.user, organization, scopes, req.is_active_superuser,
                   req.is_active_staff)
    ELSE IF req.is_active_superuser
    THEN OrganizationGlobalAccess(
            organization.val, req.superuser_scopes \cup OrEmpty(scopes),
            get_member(req.user.id, organization.val),
            get_permissions_for_user(req.user.id))
    ELSE IF req.user.is_sentry_app
    THEN from_sentry_app(req.user, organization)
    ELSE IF req.auth /= None /\ ~req.user.is_authenticated
    THEN from_auth(req.auth, organization.val)
    ELSE from_user(req.user, organization, scopes, FALSE, req.is_active_staff)

\* Variant of from_request whose superuser branch leaves out the scopes of
\* the caller's membership: C8 depends on the union with them.
from_request_without_member_scopes(req, organization, scopes) ==
    IF organization = None
    THEN from_user(req.user, organization, scopes, req.is_active_superuser,
                   req.is_active_staff)
    ELSE IF req.user.is_sentry_app
    THEN from_sentry_app(req.user, organization)
    ELSE IF req.is_active_superuser
    THEN OrganizationGlobalAccess(
            organization.val, req.superuser_scopes \cup OrEmpty(scopes),
            get_member(req.user.id, organization.val),
            get_permissions_for_user(req.user.id))
    ELSE IF req.auth /= None /\ ~req.user.is_authenticated
    THEN from_auth(req.auth, organization.val)
    ELSE from_user(req.user, organization, scopes, FALSE, req.is_active_staff)

from_request(req, organization, scopes) ==
    LET is_staff == req.is_active_staff
    IN  IF organization = None
        THEN from_user(req.user, organization, scopes, req.is_active_superuser, is_staff)
        ELSE IF req.user.is_sentry_app
        THEN from_sentry_app(req.user, organization)
        ELSE IF req.is_active_superuser
        THEN LET member == get_member(req.user.id, organization.val)
                 base == req.superuser_scopes
                 with_requested == IF Truthy(scopes) THEN base \cup scopes.val ELSE base
                 superuser_scopes ==
                    IF member /= None /\ get_scopes(member) /= {}
                    THEN with_requested \cup get_scopes(member)
                    ELSE with_requested
             IN  Looked(
                    OrganizationGlobalAccess(
                        organization.val, superuser_scopes, member,
                        get_permissions_for_user(req.user.id)),
                    "permissions")
        ELSE IF req.auth /= None /\ ~req.user.is_authenticated
        THEN from_auth(req.auth, organization.val)
        ELSE from_user(req.user, organization, scopes, FALSE, is_staff)

\* Variant of from_request_org_and_scopes without the superuser branch: a
\* superuser is resolved by bearer credential or membership.  C7 depends on
\* the branch.
from_request_org_and_scopes_unelevated(req, rpc_user_org_context, scopes) ==
    IF rpc_user_org_context = None \/ ~req.user.is_sentry_app
    THEN IF rpc_user_org_context /= None /\ req.auth /= None
            /\ ~req.user.is_authenticated
         THEN from_rpc_auth(req.auth, rpc_user_org_context)
         ELSE from_user_and_rpc_user_org_context(
                req.user, rpc_user_org_context, req.is_active_superuser,
                req.is_active_staff, scopes, None)
    ELSE from_rpc_sentry_app(rpc_user_org_context)

from_request_org_and_scopes(req, rpc_user_org_context, scopes) ==
    LET is_staff == req.is_active_staff
    IN  IF rpc_user_org_context = None
        THEN from_user_and_rpc_user_org_context(
                req.user, rpc_user_org_context, req.is_active_superuser, is_staff, scopes,
                None)
        ELSE IF req.user.is_sentry_app
        THEN from_rpc_sentry_app(rpc_user_org_context)
        ELSE IF req.is_active_superuser
        THEN LET member == rpc_user_org_context.member
                 auth_state == get_user_auth_state(req.user.id, TRUE, is_staff)
                 base == req.superuser_scopes
                 with_requested == IF Truthy(scopes) THEN base \cup scopes.val ELSE base
                 superuser_scopes ==
                    IF member /= None /\ member.scopes /= {}
                    THEN with_requested \cup member.scopes
                    ELSE with_requested
             IN  Looked(
                    ApiBackedOrganizationGlobalAccess(
                        rpc_user_org_context, auth_state, Some(superuser_scopes)),
                    "permissions")
        ELSE IF req.auth /= None /\ ~req.user.is_authenticated
        THEN from_rpc_auth(req.auth, rpc_user_org_context)
        ELSE from_user_and_rpc_user_org_context(
                req.user, rpc_user_org_context, FALSE, is_staff, scopes, None)

(***************************************************************************)
(* State machine.                                                          *)
(***************************************************************************)
Statuses == {"ACTIVE", "PENDING_DELETION"}

\* Every team and project object a query may be handed: any id, with its
\* organization, in any status.
TeamObjects ==
    {[id |-> t, organization_id |-> TeamOrg(t), status |-> st] :
        t \in TeamIds, st \in Statuses}

ProjectObjects ==
    {[id |-> p, organization_id |-> ProjectOrg(p), status |-> st,
      teams |-> ProjectTeams(p)] : p \in ProjectIds, st \in Statuses}

\* The user ids a has_role_in_organization query may be handed.
UserIds == {None} \cup {u.id : u \in RequestUsers}

NoRequest == [fn |-> "none"]

\* The caller's record of an evaluator: the value the first read of each
\* derived set returned.
NothingObserved == [first_read |-> [name \in DerivedSets |-> None]]

InitAccess ==
    /\ db_member = None
    /\ db_open = {}
    /\ db_omt = {}
    /\ db_inactive = [teams |-> {}, projects |-> {}]
    /\ db_app = None
    /\ db_team_roles = {}
    /\ request = NoRequest
    /\ access = DEFAULT
    /\ observed = NothingObserved

\* No _process_groups call, no U2fInterface, no issue data.
NoProcessGroups == process_groups = None

NoU2f == u2f = None

NoIssues ==
    /\ db_group = <<>>
    /\ db_snooze = {}
    /\ effects = {}
    /\ running = <<>>
    /\ task = None

Init == InitAccess /\ NoProcessGroups /\ NoU2f /\ NoIssues

\* One evaluator is built per request and lives as long as the request: a
\* factory is called when no request is being handled, and the database
\* changes between requests.
Idle == request = NoRequest

BetweenRequests ==
    /\ Idle
    /\ UNCHANGED <<request, access, observed, other_vars>>

\* The database also changes while a request is being handled: its evaluator
\* is not told.
DuringRequest ==
    /\ ~Idle
    /\ UNCHANGED <<request, access, observed, other_vars>>

\* The request ends, and its evaluator with it.
FinishRequest ==
    /\ ~Idle
    /\ request' = NoRequest
    /\ access' = DEFAULT
    /\ observed' = NothingObserved
    /\ UNCHANGED <<db_vars, other_vars>>

MemberRows ==
    {[user_id |-> HumanUser.id, organization_id |-> MemberOrg,
      role |-> r, extra_scopes |-> e] :
        r \in OrganizationRoles, e \in {{}, {"project:write"}}}

AddMember ==
    /\ db_member = None
    /\ \E m \in MemberRows :
        /\ m.role = "owner" => m.extra_scopes = {}
        /\ db_member' = m
    /\ BetweenRequests
    /\ UNCHANGED <<db_open, db_omt, db_inactive, db_app, db_team_roles>>

DbRemoveMember ==
    /\ db_member /= None
    /\ db_member' = None
    /\ db_omt' = {}
    /\ UNCHANGED <<db_open, db_inactive, db_app, db_team_roles>>

RemoveMember == DbRemoveMember /\ BetweenRequests

ConcurrentRemoveMember == DbRemoveMember /\ DuringRequest

SetAllowJoinleave ==
    /\ \E o \in Orgs :
        db_open' = IF o \in db_open THEN db_open \ {o} ELSE db_open \cup {o}
    /\ BetweenRequests
    /\ UNCHANGED <<db_member, db_omt, db_inactive, db_app, db_team_roles>>

DbAddTeamMembership ==
    /\ db_member /= None
    /\ Cardinality(db_omt) < MaxOmt
    /\ \E t \in TeamIds, active \in BOOLEAN, r \in TeamRoles :
        /\ TeamOrg(t) = db_member.organization_id
        /\ \A omt \in db_omt : omt.team /= t
        /\ ~active => r = "contributor"
        /\ db_omt' = db_omt \cup {[team |-> t, is_active |-> active, role |-> r]}
    /\ UNCHANGED <<db_member, db_open, db_inactive, db_app, db_team_roles>>

AddTeamMembership == DbAddTeamMembership /\ BetweenRequests

ConcurrentAddTeamMembership == DbAddTeamMembership /\ DuringRequest

DbRemoveTeamMembership ==
    /\ \E omt \in db_omt : db_omt' = db_omt \ {omt}
    /\ UNCHANGED <<db_member, db_open, db_inactive, db_app, db_team_roles>>

RemoveTeamMembership == DbRemoveTeamMembership /\ BetweenRequests

ConcurrentRemoveTeamMembership == DbRemoveTeamMembership /\ DuringRequest

\* Teams and projects of the member's organization are deleted and restored.
DbSetTeamStatus ==
    /\ \E t \in TeamIds :
        /\ TeamOrg(t) = MemberOrg
        /\ IF t \in db_inactive.teams
           THEN db_inactive' = [db_inactive EXCEPT !.teams = @ \ {t}]
           ELSE /\ Cardinality(db_inactive.teams) + Cardinality(db_inactive.projects)
                        < MaxInactive
                /\ db_inactive' = [db_inactive EXCEPT !.teams = @ \cup {t}]
    /\ UNCHANGED <<db_member, db_open, db_omt, db_app, db_team_roles>>

SetTeamStatus == DbSetTeamStatus /\ BetweenRequests

ConcurrentSetTeamStatus == DbSetTeamStatus /\ DuringRequest

DbSetProjectStatus ==
    /\ \E p \in ProjectIds :
        /\ ProjectOrg(p) = MemberOrg
        /\ IF p \in db_inactive.projects
           THEN db_inactive' = [db_inactive EXCEPT !.projects = @ \ {p}]
           ELSE /\ Cardinality(db_inactive.teams) + Cardinality(db_inactive.projects)
                        < MaxInactive
                /\ db_inactive' = [db_inactive EXCEPT !.projects = @ \cup {p}]
    /\ UNCHANGED <<db_member, db_open, db_omt, db_app, db_team_roles>>

SetProjectStatus == DbSetProjectStatus /\ BetweenRequests

ConcurrentSetProjectStatus == DbSetProjectStatus /\ DuringRequest

\* The feature "organizations:team-roles" is switched for the member's
\* organization.
DbSetTeamRolesFeature ==
    /\ db_team_roles' =
            IF MemberOrg \in db_team_roles THEN db_team_roles \ {MemberOrg}
            ELSE db_team_roles \cup {MemberOrg}
    /\ UNCHANGED <<db_member, db_open, db_omt, db_inactive, db_app>>

SetTeamRolesFeature == DbSetTeamRolesFeature /\ BetweenRequests

ConcurrentSetTeamRolesFeature == DbSetTeamRolesFeature /\ DuringRequest

CreateSentryApp ==
    /\ db_app = None
    /\ db_app' = [scope_list |-> AppScopeList, installed_on |-> {}]
    /\ BetweenRequests
    /\ UNCHANGED <<db_member, db_open, db_omt, db_inactive, db_team_roles>>

InstallSentryApp ==
    /\ db_app /= None
    /\ \E o \in Orgs :
        db_app' = [db_app EXCEPT !.installed_on =
                        IF o \in @ THEN @ \ {o} ELSE @ \cup {o}]
    /\ BetweenRequests
    /\ UNCHANGED <<db_member, db_open, db_omt, db_inactive, db_team_roles>>

Elevations == BOOLEAN \X BOOLEAN

NotElevated == {<<FALSE, FALSE>>}

\* from_member, with the scope list drawn from `scope_lists` and
\* (is_superuser, is_staff) from `elevations`.
FromMember(scope_lists, elevations) ==
    /\ Idle
    /\ db_member /= None
    /\ \E scopes \in scope_lists, el \in elevations :
        /\ request' = [fn |-> "from_member", member |-> db_member, scopes |-> scopes,
                       is_superuser |-> el[1], is_staff |-> el[2]]
        /\ access' = from_member(db_member, scopes, el[1], el[2])
    /\ UNCHANGED <<db_vars, observed, other_vars>>

\* The auth_state argument: left out, or the state the access service gave
\* the caller for this user and elevation.
AuthStates(user_id, is_superuser, is_staff) ==
    {None, Some(get_user_auth_state(user_id, is_superuser, is_staff))}

\* from_rpc_member on the context of an organization for a user id of `uids`;
\* the caller hands over an auth_state when `supplied` says so.
FromRpcMember(uids, scope_lists, elevations, supplied) ==
    /\ Idle
    /\ \E o \in Orgs, uid \in uids, scopes \in scope_lists, el \in elevations :
        \E auth_state \in {st \in AuthStates(uid, el[1], el[2]) : (st /= None) \in supplied} :
        LET ctx == RpcUserOrganizationContext(o, uid)
        IN  /\ request' = [fn |-> "from_rpc_member",
                           rpc_user_organization_context |-> ctx, scopes |-> scopes,
                           is_superuser |-> el[1], is_staff |-> el[2]]
            /\ access' = from_rpc_member(ctx, scopes, el[1], el[2], auth_state)
    /\ UNCHANGED <<db_vars, observed, other_vars>>

FromAuth ==
    /\ Idle
    /\ \E auth \in AuthTokens, o \in Orgs :
        /\ request' = [fn |-> "from_auth", auth |-> auth, organization |-> Some(o)]
        /\ access' = from_auth(auth, o)
    /\ UNCHANGED <<db_vars, observed, other_vars>>

FromRpcAuth ==
    /\ Idle
    /\ \E auth \in AuthTokens, o \in Orgs :
        LET ctx == RpcUserOrganizationContext(o, None)
        IN  /\ request' = [fn |-> "from_rpc_auth", auth |-> auth,
                           organization |-> Some(o),
                           rpc_user_organization_context |-> ctx]
            /\ access' = from_rpc_auth(auth, ctx)
    /\ UNCHANGED <<db_vars, observed, other_vars>>

OptionalOrgs == {None} \cup {Some(o) : o \in Orgs}

\* from_user for any user, with or without an organization.
FromUser ==
    /\ Idle
    /\ \E user \in RequestUsers \cup {None}, organization \in OptionalOrgs,
          scopes \in ScopeLists, el \in Elevations :
        /\ request' = [fn |-> "from_user", user |-> user,
                       organization |-> organization, scopes |-> scopes,
                       is_superuser |-> el[1], is_staff |-> el[2]]
        /\ access' = from_user(user, organization, scopes, el[1], el[2])
    /\ UNCHANGED <<db_vars, observed, other_vars>>

\* from_user_and_rpc_user_org_context for any user, with or without the
\* context of an organization.
FromUserAndRpcUserOrgContext ==
    /\ Idle
    /\ \E user \in RequestUsers \cup {None}, organization \in OptionalOrgs,
          scopes \in ScopeLists, el \in Elevations :
        LET user_id == IF user = None THEN None ELSE user.id
            ctx == IF organization = None THEN None
                   ELSE RpcUserOrganizationContext(organization.val, user_id)
        IN  \E auth_state \in AuthStates(user_id, el[1], el[2]) :
            /\ request' = [fn |-> "from_user_and_rpc_user_org_context",
                           user |-> user, organization |-> organization,
                           rpc_user_org_context |-> ctx, scopes |-> scopes,
                           is_superuser |-> el[1], is_staff |-> el[2]]
            /\ access' = from_user_and_rpc_user_org_context(
                            user, ctx, el[1], el[2], scopes, auth_state)
    /\ UNCHANGED <<db_vars, observed, other_vars>>

Requests ==
    {[user |-> u, auth |-> au, is_active_superuser |-> su, is_active_staff |-> st,
      superuser_scopes |-> ss] :
        u \in RequestUsers, au \in AuthTokens \cup {None}, su \in BOOLEAN,
        st \in BOOLEAN, ss \in SuperuserScopeSets}

\* get_superuser_scopes is read for an active superuser only.
RequestInputs ==
    {r \in Requests : ~r.is_active_superuser => r.superuser_scopes = {"org:read"}}

FromRequest(reqs, scope_lists) ==
    /\ Idle
    /\ \E req \in reqs, organization \in OptionalOrgs, scopes \in scope_lists :
        /\ request' = [fn |-> "from_request", req |-> req,
                       organization |-> organization, scopes |-> scopes]
        /\ access' = from_request(req, organization, scopes)
    /\ UNCHANGED <<db_vars, observed, other_vars>>

FromRequestOrgAndScopes(reqs, scope_lists) ==
    /\ Idle
    /\ \E req \in reqs, organization \in OptionalOrgs, scopes \in scope_lists :
        LET ctx == IF organization = None THEN None
                   ELSE RpcUserOrganizationContext(organization.val, req.user.id)
        IN  /\ request' = [fn |-> "from_request_org_and_scopes", req |-> req,
                           organization |-> organization,
                           rpc_user_org_context |-> ctx, scopes |-> scopes]
            /\ access' = from_request_org_and_scopes(req, ctx, scopes)
    /\ UNCHANGED <<db_vars, observed, other_vars>>

\* Evaluators built from a membership or a bearer credential, over a changing
\* database.
Next ==
    \/ AddMember
    \/ RemoveMember
    \/ SetAllowJoinleave
    \/ AddTeamMembership
    \/ RemoveTeamMembership
    \/ SetTeamStatus
    \/ SetProjectStatus
    \/ FromMember(ScopeLists, NotElevated)
    \/ FromRpcMember({HumanUser.id}, ScopeLists, NotElevated, {FALSE})
    \/ FromAuth
    \/ FromRpcAuth
    \/ FinishRequest

Spec == Init /\ [][Next]_vars

\* Evaluators built from a request.
NextRequest ==
    \/ AddMember
    \/ RemoveMember
    \/ CreateSentryApp
    \/ InstallSentryApp
    \/ FromRequest(RequestInputs, ScopeLists)
    \/ FromRequestOrgAndScopes(RequestInputs, ScopeLists)
    \/ FinishRequest

SpecRequest == Init /\ [][NextRequest]_vars

\* Evaluators built for a user or a membership, elevated or not.
NextUser ==
    \/ AddMember
    \/ RemoveMember
    \/ SetAllowJoinleave
    \/ FromMember(ScopeLists, Elevations)
    \/ FromRpcMember({HumanUser.id, InactiveUser.id, None}, ScopeLists, Elevations, BOOLEAN)
    \/ FromUser
    \/ FromUserAndRpcUserOrgContext
    \/ FinishRequest

SpecUser == Init /\ [][NextUser]_vars

(***************************************************************************)
(* One evaluator in use: the caller reads its derived sets and calls its   *)
(* queries while the database changes under it.                            *)
(***************************************************************************)
MaxLookups == 2

\* The argument lists of has_any_project_scope.
CallScopes == {{scope} : scope \in SENTRY_SCOPES} \cup {SENTRY_SCOPES}

\* The queries of an evaluator, each with its arguments.
Calls ==
    {[method |-> "has_scope", scope |-> scope] : scope \in SENTRY_SCOPES}
    \cup {[method |-> "has_permission", permission |-> permission] :
            permission \in Permissions}
    \cup {[method |-> "has_team_access", team |-> team] : team \in TeamObjects}
    \cup {[method |-> "has_team_scope", team |-> team, scope |-> scope] :
            team \in TeamObjects, scope \in SENTRY_SCOPES}
    \cup {[method |-> "get_team_role", team |-> team] : team \in TeamObjects}
    \cup {[method |-> "has_project_access", project |-> project] :
            project \in ProjectObjects}
    \cup {[method |-> "has_any_project_scope", project |-> project, scopes |-> scopes] :
            project \in ProjectObjects, scopes \in CallScopes}
    \cup {[method |-> "has_role_in_organization", role |-> role,
           organization |-> o, user_id |-> user_id] :
            role \in OrganizationRoles, o \in Orgs, user_id \in UserIds}

\* The answer of a call.
answer(a, call) ==
    CASE call.method = "has_scope" -> has_scope(a, call.scope)
      [] call.method = "has_permission" -> has_permission(a, call.permission)
      [] call.method = "has_team_access" -> has_team_access(a, call.team)
      [] call.method = "has_team_scope" -> has_team_scope(a, call.team, call.scope)
      [] call.method = "get_team_role" -> get_team_role(a, call.team)
      [] call.method = "has_project_access" -> has_project_access(a, call.project)
      [] call.method = "has_any_project_scope" ->
            has_any_project_scope(a, call.project, call.scopes)
      [] call.method = "has_role_in_organization" ->
            Access_has_role_in_organization(
                a, call.role, call.organization, call.user_id)

\* The evaluator after a call.
after_call(a, call) ==
    CASE call.method = "has_team_access" -> after_has_team_access(a, call.team)
      [] call.method = "has_team_scope" ->
            after_has_team_scope(a, call.team, call.scope)
      [] call.method = "get_team_role" -> after_get_team_role(a, call.team)
      [] call.method = "has_project_access" ->
            after_has_project_access(a, call.project)
      [] call.method = "has_any_project_scope" ->
            after_has_any_project_scope(a, call.project, call.scopes)
      [] OTHER -> a

\* The data-access calls a call makes other than the lazy computation of a
\* derived set.
data_access(a, call) ==
    CASE call.method = "has_role_in_organization" ->
            has_role_in_organization_queries(
                a, call.role, call.organization, call.user_id)
      [] call.method = "has_any_project_scope" ->
            has_any_project_scope_queries(a, call.project, call.scopes)
      [] OTHER -> {}

\* The caller reads one of the derived sets `names`, and remembers the first
\* value of each.
Read(names) ==
    /\ ~Idle
    /\ \E name \in names :
        /\ \A k \in LookupKinds : read(access, name).lookups[k] <= MaxLookups
        /\ access' = read(access, name)
        /\ observed' =
                [observed EXCEPT !.first_read[name] =
                    IF @ = None THEN Some(getattr(access, name)) ELSE @]
    /\ UNCHANGED <<db_vars, request, other_vars>>

\* The caller calls a query.  A call that memoizes nothing changes no
\* variable, and is a stuttering step.
Call ==
    /\ ~Idle
    /\ \E call \in Calls :
        /\ after_call(access, call) /= access
        /\ \A k \in LookupKinds : after_call(access, call).lookups[k] <= MaxLookups
        /\ access' = after_call(access, call)
    /\ UNCHANGED <<db_vars, request, observed, other_vars>>

\* Derived sets read from one evaluator over a changing database.
NextRead ==
    \/ AddMember
    \/ ConcurrentAddTeamMembership
    \/ ConcurrentRemoveTeamMembership
    \/ ConcurrentSetTeamStatus
    \/ ConcurrentSetProjectStatus
    \/ FromMember({None}, NotElevated)
    \/ FromAuth
    \/ Read(IdSets)
    \/ FinishRequest

SpecRead == Init /\ [][NextRead]_vars

\* Every derived set read from one evaluator, built elevated or not, while
\* team memberships change.
NextLazy ==
    \/ AddMember
    \/ ConcurrentAddTeamMembership
    \/ ConcurrentRemoveTeamMembership
    \/ FromMember({None}, Elevations)
    \/ FromAuth
    \/ Read(DerivedSets)
    \/ FinishRequest

SpecLazy == Init /\ [][NextLazy]_vars

\* Queries called on one evaluator over a changing database.
NextCall ==
    \/ AddMember
    \/ ConcurrentRemoveMember
    \/ ConcurrentAddTeamMembership
    \/ ConcurrentRemoveTeamMembership
    \/ ConcurrentSetTeamStatus
    \/ ConcurrentSetProjectStatus
    \/ ConcurrentSetTeamRolesFeature
    \/ FromMember({None}, NotElevated)
    \/ FromAuth
    \/ Call
    \/ FinishRequest

SpecCall == Init /\ [][NextCall]_vars

\* The scope lists of a member's evaluator: absent, empty, with and without
\* the scope a team role grants.
MemberScopeLists == {None, Some({}), Some({"project:write"}), Some({"org:read"})}

\* Members' evaluators built over every state of the membership data, the
\* team-roles feature included.
NextMember ==
    \/ AddMember
    \/ RemoveMember
    \/ SetAllowJoinleave
    \/ AddTeamMembership
    \/ RemoveTeamMembership
    \/ SetTeamStatus
    \/ SetProjectStatus
    \/ SetTeamRolesFeature
    \/ FromMember(MemberScopeLists, NotElevated)
    \/ FromRpcMember({HumanUser.id}, MemberScopeLists, NotElevated, {FALSE})
    \/ FinishRequest

SpecMember == Init /\ [][NextMember]_vars

\* Requests of a service principal, of an elevated session or with a bearer
\* credential and no session: the requests from_request answers with a
\* global-org-access evaluator.
ServiceRequests ==
    {r \in RequestInputs :
        /\ ~r.is_active_staff
        /\ r.superuser_scopes = {"org:read"}
        /\ r.user /= InactiveUser
        /\ r.user.is_authenticated => r.auth = None
        /\ r.user.is_sentry_app \/ r.is_active_superuser \/ r.auth /= None}

\* Requests of service principals, bearer credentials and elevated sessions
\* over organizations whose teams and projects have members and statuses.
NextService ==
    \/ AddMember
    \/ AddTeamMembership
    \/ SetTeamStatus
    \/ SetProjectStatus
    \/ CreateSentryApp
    \/ InstallSentryApp
    \/ FromRequest(ServiceRequests, {None})
    \/ FromRequestOrgAndScopes(ServiceRequests, {None})
    \/ FromMember(MemberScopeLists, NotElevated)
    \/ FromRpcMember({HumanUser.id}, MemberScopeLists, NotElevated, {FALSE})
    \/ FinishRequest

SpecService == Init /\ [][NextService]_vars

(***************************************************************************)
(* Properties.                                                             *)
(***************************************************************************)
MemberBackedKinds == {"OrganizationMemberAccess", "RpcBackedAccess"}

\* The membership row behind the evaluator of a from_member or
\* from_rpc_member call, None when the caller has none.
CallMembership ==
    IF request.fn = "from_member" THEN request.member
    ELSE get_member(request.rpc_user_organization_context.user_id,
                    request.rpc_user_organization_context.organization.id)

\* Role scopes together with the membership's explicit extra scopes; no
\* membership contributes no scopes.
MembershipScopes(om) ==
    IF om = None THEN {} ELSE RoleScopes(om.role) \cup om.extra_scopes

MemberCall ==
    /\ request.fn \in {"from_member", "from_rpc_member"}
    /\ access.kind \in MemberBackedKinds

\* C1: a member-backed evaluator built by from_member or from_rpc_member has
\* the scopes (role scopes + extra scopes) of its membership, intersected with
\* the requested scope list when one was given; without a membership it has
\* no scopes.
C1_MemberScopes ==
    MemberCall =>
        access_scopes(access) =
            IF request.scopes = None
            THEN MembershipScopes(CallMembership)
            ELSE MembershipScopes(CallMembership) \cap request.scopes.val

\* Whether the evaluator carries an upper bound (a requested scope list).
HasUpperBound(a) ==
    a.kind \in DbKinds \cup RpcKinds /\ a.scopes_upper_bound /= None

\* The membership row behind an evaluator: the row a local evaluator holds,
\* the row of the context's user and organization for a remote one.
EvaluatorMembership(a) ==
    CASE a.kind \in DbKinds -> a.member
      [] a.kind \in RpcKinds ->
            get_member(a.rpc_user_organization_context.user_id,
                       a.rpc_user_organization_context.organization.id)
      [] OTHER -> None

CarriedMembershipScopes(a) == MembershipScopes(EvaluatorMembership(a))

\* C2 (as stated): with an upper bound every held scope is in the bound;
\* without one, whatever the variant, the scopes are those of the membership.
C2_AsStated ==
    IF HasUpperBound(access)
    THEN \A s \in SENTRY_SCOPES :
            has_scope(access, s) => s \in access.scopes_upper_bound.val
    ELSE access_scopes(access) = CarriedMembershipScopes(access)

\* C2: with an upper bound every held scope is in the bound; a member-backed
\* evaluator without an upper bound has exactly the scopes of its membership.
C2_ScopeMonotonicity ==
    /\ HasUpperBound(access) =>
        \A s \in SENTRY_SCOPES :
            has_scope(access, s) => s \in access.scopes_upper_bound.val
    /\ (~HasUpperBound(access) /\ access.kind \in MemberBackedKinds) =>
        access_scopes(access) = CarriedMembershipScopes(access)

\* C2 witness: a member's evaluator whose upper bound removed a role scope.
C2_Witness ==
    /\ access.kind \in MemberBackedKinds
    /\ member_of(access) /= None
    /\ HasUpperBound(access)
    /\ access_scopes(access) /= CarriedMembershipScopes(access)

\* Whether the evaluator was built for this organization; SystemAccess is
\* bound to none and answers for all.
SameOrganization(a, organization_id) ==
    a.kind = "SystemAccess" \/ organization_of(a) = Some(organization_id)

\* C3 (as stated): global access reaches every active team and project of the
\* evaluator's organization, with or without any membership row.
C3_AsStated ==
    has_global_access(access) =>
        /\ \A team \in TeamObjects :
            (team.status = "ACTIVE" /\ SameOrganization(access, team.organization_id))
                => has_team_access(access, team)
        /\ \A project \in ProjectObjects :
            (project.status = "ACTIVE"
             /\ SameOrganization(access, project.organization_id))
                => has_project_access(access, project)

\* C3: global access reaches every active team of the evaluator's
\* organization without any membership row, and every active project of it
\* too, except that the remote member evaluator (RpcBackedAccess) gives
\* project access through global access only when its context holds a member.
C3_GlobalAccessReach ==
    has_global_access(access) =>
        /\ \A team \in TeamObjects :
            (team.status = "ACTIVE" /\ SameOrganization(access, team.organization_id))
                => has_team_access(access, team)
        /\ \A project \in ProjectObjects :
            (/\ project.status = "ACTIVE"
             /\ SameOrganization(access, project.organization_id)
             /\ (access.kind = "RpcBackedAccess" => member_of(access) /= None))
                => has_project_access(access, project)

\* C3 witness: a member with global access and no team membership reaches an
\* active project of the organization.
C3_Witness ==
    /\ access.kind \in MemberBackedKinds
    /\ has_global_access(access)
    /\ team_ids_with_membership(access) = {}
    /\ \E project \in ProjectObjects :
        /\ project.status = "ACTIVE"
        /\ organization_of(access) = Some(project.organization_id)
        /\ has_project_access(access, project)

\* The teams the evaluator's member belongs to through an active membership
\* row of an active team, and the active projects of those teams.
MemberTeamIds(a) ==
    IF EvaluatorMembership(a) = None \/ EvaluatorMembership(a) /= db_member THEN {}
    ELSE {t \in TeamIds :
            /\ t \notin db_inactive.teams
            /\ \E omt \in db_omt : omt.team = t /\ omt.is_active}

MemberProjectIds(a) ==
    {p \in ProjectIds :
        p \notin db_inactive.projects /\ ProjectTeams(p) \cap MemberTeamIds(a) /= {}}

\* A member's evaluator without global access: the role is not global and the
\* organization is not open.
MemberWithoutGlobalAccess ==
    /\ access.kind \in MemberBackedKinds
    /\ EvaluatorMembership(access) /= None
    /\ ~RoleIsGlobal(EvaluatorMembership(access).role)
    /\ organization_of(access).val \notin db_open

\* C4: for a member without global access, an active project is accessible
\* exactly when it is reachable through one of the member's active team
\* memberships, and an active team exactly when the member belongs to it.
C4_MembershipReach ==
    MemberWithoutGlobalAccess =>
        /\ project_ids_with_team_membership(access) = MemberProjectIds(access)
        /\ team_ids_with_membership(access) = MemberTeamIds(access)
        /\ \A project \in ProjectObjects :
            project.status = "ACTIVE" =>
                (has_project_access(access, project)
                    <=> project.id \in MemberProjectIds(access))
        /\ \A team \in TeamObjects :
            team.status = "ACTIVE" =>
                (has_team_access(access, team) <=> team.id \in MemberTeamIds(access))

\* C4 witness: a member without global access reaches one project of the
\* organization through a team and is denied another.
C4_Witness ==
    /\ MemberWithoutGlobalAccess
    /\ \E p, q \in ProjectObjects :
        /\ p.status = "ACTIVE" /\ q.status = "ACTIVE"
        /\ organization_of(access) = Some(p.organization_id)
        /\ organization_of(access) = Some(q.organization_id)
        /\ has_project_access(access, p)
        /\ ~has_project_access(access, q)

\* C5 (as stated): no variant gives access to a team or a project that is not
\* active.
C5_AsStated ==
    /\ \A team \in TeamObjects :
        team.status /= "ACTIVE" => ~has_team_access(access, team)
    /\ \A project \in ProjectObjects :
        project.status /= "ACTIVE" => ~has_project_access(access, project)

\* C5: every variant but SystemAccess denies a team or a project that is not
\* active, whatever its scopes, membership and global access; SystemAccess
\* grants it.
C5_InactiveDenied ==
    /\ \A team \in TeamObjects :
        team.status /= "ACTIVE" =>
            (has_team_access(access, team) <=> access.kind = "SystemAccess")
    /\ \A project \in ProjectObjects :
        project.status /= "ACTIVE" =>
            (has_project_access(access, project) <=> access.kind = "SystemAccess")

\* C5 witness: a member with global access and an active membership row for
\* a team that is no longer active.
C5_Witness ==
    /\ access.kind \in MemberBackedKinds
    /\ has_global_access(access)
    /\ \E omt \in db_omt : omt.is_active /\ omt.team \in db_inactive.teams
    /\ \E team \in TeamObjects :
        /\ team.id \in db_inactive.teams
        /\ organization_of(access) = Some(team.organization_id)
        /\ ~has_team_access(access, team)

(***************************************************************************)
(* Properties of the evaluators built from a request.                      *)
(***************************************************************************)
RequestCall == request.fn \in {"from_request", "from_request_org_and_scopes"}

WithOrganization == RequestCall /\ request.organization /= None

IsServicePrincipal == request.req.user.is_sentry_app

IsActiveSuperuser == request.req.is_active_superuser

IsBearerWithoutUser ==
    request.req.auth /= None /\ ~request.req.user.is_authenticated

GlobalAccessKinds == {"OrganizationGlobalAccess", "ApiBackedOrganizationGlobalAccess"}

GlobalMembershipKinds ==
    {"OrganizationGlobalMembership", "ApiOrganizationGlobalMembership"}

\* What each step of the factory returns.
ServicePrincipalResult ==
    \/ access.kind = "NoAccess"
    \/ access.kind \in GlobalMembershipKinds /\ access_scopes(access) = AppScopeList

ElevatedResult ==
    /\ access.kind \in GlobalAccessKinds
    /\ organization_of(access) = request.organization
    /\ request.req.superuser_scopes \subseteq access_scopes(access)
    /\ access_permissions(access) = get_permissions_for_user(request.req.user.id)

BearerResult ==
    IF request.req.auth.kind = "system" THEN access.kind = "SystemAccess"
    ELSE IF request.req.auth.organization_id = request.organization
    THEN /\ access.kind \in GlobalAccessKinds
         /\ access_scopes(access) = SENTRY_SCOPES
         /\ access_permissions(access) = {}
    ELSE access.kind = "NoAccess"

MembershipResult ==
    access.kind \in {"NoAccess", "OrganizationlessAccess"} \cup MemberBackedKinds

C7_AsStated ==
    (/\ WithOrganization
     /\ ~IsServicePrincipal
     /\ normalize_valid_user(request.req.user) /= None
     /\ (request.req.is_active_superuser \/ request.req.is_active_staff))
        => /\ has_global_access(access)
           /\ SameOrganization(access, request.organization.val)

\* C7: an active superuser session of a caller that is no service principal
\* gets a global-access evaluator of the organization; staff elevation alone
\* is resolved as a bearer credential or a plain membership.
C7_SuperuserGlobalAccess ==
    (WithOrganization /\ ~IsServicePrincipal) =>
        /\ request.req.is_active_superuser =>
            /\ access.kind \in GlobalAccessKinds
            /\ has_global_access(access)
            /\ organization_of(access) = request.organization
        /\ (~request.req.is_active_superuser /\ request.req.is_active_staff) =>
            IF IsBearerWithoutUser THEN BearerResult ELSE MembershipResult

\* C7 witness: a superuser without a membership in the organization, given
\* global access to it.
C7_Witness ==
    /\ WithOrganization
    /\ ~IsServicePrincipal
    /\ request.req.is_active_superuser
    /\ get_member(request.req.user.id, request.organization.val) = None
    /\ has_global_access(access)
    /\ organization_of(access) = request.organization

\* The membership of the request's user in the request's organization.
RequestMembership == get_member(request.req.user.id, request.organization.val)

SuperuserCall == WithOrganization /\ ~IsServicePrincipal /\ IsActiveSuperuser

AuthCall == request.fn \in {"from_auth", "from_rpc_auth"}

\* C9: a bearer credential gives SystemAccess when it is the system
\* credential, a global-access evaluator with the full configured scope set
\* when it is bound to the requested organization, and NoAccess, which holds
\* no scope, when it is bound to another.
C9_BearerCredential ==
    AuthCall =>
        IF request.auth.kind = "system" THEN access.kind = "SystemAccess"
        ELSE IF request.auth.organization_id = request.organization
        THEN /\ access.kind \in GlobalAccessKinds
             /\ has_global_access(access)
             /\ organization_of(access) = request.organization
             /\ access_scopes(access) = SENTRY_SCOPES
        ELSE /\ access.kind = "NoAccess"
             /\ \A s \in SENTRY_SCOPES : ~has_scope(access, s)

\* C9 witness: a token bound to one organization, used against another.
C9_Witness ==
    /\ AuthCall
    /\ request.auth.kind = "org_token"
    /\ request.auth.organization_id /= request.organization
    /\ access.kind = "NoAccess"
    /\ ~has_scope(access, "org:read")

\* Whether the sentry app of the request's user is installed on the
\* request's organization.
AppInstalled ==
    /\ db_app /= None
    /\ request.req.user = AppUser
    /\ request.organization.val \in db_app.installed_on

\* C10: a service principal gets NoAccess when its app is missing or not
\* installed on the organization, and otherwise a global evaluator with
\* simulated membership holding exactly the app's scope list, whatever the
\* elevation of the session.
C10_ServicePrincipal ==
    (WithOrganization /\ IsServicePrincipal) =>
        IF AppInstalled
        THEN /\ access.kind \in GlobalMembershipKinds
             /\ organization_of(access) = request.organization
             /\ has_global_access(access)
             /\ access_scopes(access) = db_app.scope_list
        ELSE access.kind = "NoAccess"

\* C10 witness: an installed app's user with an elevated session, holding the
\* app's scopes only.
C10_Witness ==
    /\ WithOrganization /\ IsServicePrincipal /\ AppInstalled
    /\ request.req.is_active_superuser /\ request.req.is_active_staff
    /\ access.kind \in GlobalMembershipKinds
    /\ access_scopes(access) = db_app.scope_list

(***************************************************************************)
(* Properties of the evaluators built for a user or a membership.          *)
(***************************************************************************)
UserCall == request.fn \in {"from_user", "from_user_and_rpc_user_org_context"}

UnelevatedCall ==
    /\ request.fn \in {"from_member", "from_rpc_member", "from_user",
                       "from_user_and_rpc_user_org_context"}
    /\ ~request.is_superuser
    /\ ~request.is_staff

WithoutMembership ==
    \/ request.organization = None
    \/ get_member(request.user.id, request.organization.val) = None

\* C12: from_user and from_user_and_rpc_user_org_context return NoAccess for
\* a user that is None, anonymous or not active, whatever the other
\* arguments; for a valid user without organization or without membership
\* they return an OrganizationlessAccess with no scopes and no team or
\* project access.
C12_Fallback ==
    UserCall =>
        IF normalize_valid_user(request.user) = None
        THEN access = NoAccess
        ELSE WithoutMembership =>
                /\ access.kind = "OrganizationlessAccess"
                /\ access_scopes(access) = {}
                /\ \A s \in SENTRY_SCOPES : ~has_scope(access, s)
                /\ \A team \in TeamObjects : ~has_team_access(access, team)
                /\ \A project \in ProjectObjects : ~has_project_access(access, project)

\* C12 witness: an inactive user with a superuser flag, an organization and a
\* scope list gets NoAccess.
C12_Witness ==
    /\ UserCall
    /\ request.user = InactiveUser
    /\ request.organization /= None
    /\ request.is_superuser
    /\ request.scopes /= None
    /\ access = NoAccess

\* C12 second case: a valid elevated user without membership in the
\* organization gets an OrganizationlessAccess.
C12_WitnessOrganizationless ==
    /\ UserCall
    /\ request.user = HumanUser
    /\ request.organization /= None
    /\ WithoutMembership
    /\ access.kind = "OrganizationlessAccess"

(***************************************************************************)
(* Properties of SystemAccess and NoAccess.                                *)
(***************************************************************************)
\* C13: SystemAccess answers true to has_scope, has_permission,
\* has_team_access and has_project_access for any input, and its
\* accessible_team_ids and accessible_project_ids are empty.
C13_SystemAccess ==
    access.kind = "SystemAccess" =>
        /\ \A s \in SENTRY_SCOPES : has_scope(access, s)
        /\ \A p \in Permissions : has_permission(access, p)
        /\ \A team \in TeamObjects : has_team_access(access, team)
        /\ \A project \in ProjectObjects : has_project_access(access, project)
        /\ accessible_team_ids(access) = {}
        /\ accessible_project_ids(access) = {}

\* C13 witness: the system credential gives an evaluator that grants an
\* active team of an organization and lists no accessible team.
C13_Witness ==
    /\ AuthCall
    /\ request.auth = SystemToken
    /\ access.kind = "SystemAccess"
    /\ \E team \in AllTeams :
        /\ team.status = "ACTIVE"
        /\ Some(team.organization_id) = request.organization
        /\ has_team_access(access, team)
        /\ team.id \notin accessible_team_ids(access)

\* Every has_* query of NoAccess but has_role_in_organization answers false,
\* and scopes and permissions are empty.
NoAccessDenies(a) ==
    /\ access_scopes(a) = {}
    /\ access_permissions(a) = {}
    /\ \A s \in SENTRY_SCOPES : ~has_scope(a, s)
    /\ \A p \in Permissions : ~has_permission(a, p)
    /\ \A team \in TeamObjects :
        /\ ~has_team_access(a, team)
        /\ ~has_team_membership(a, team)
        /\ \A s \in SENTRY_SCOPES : ~has_team_scope(a, team, s)
    /\ \A project \in ProjectObjects :
        /\ ~has_project_access(a, project)
        /\ ~has_project_membership(a, project)
        /\ \A s \in SENTRY_SCOPES : ~has_project_scope(a, project, s)
        /\ \A scopes \in SUBSET SENTRY_SCOPES :
            ~has_any_project_scope(a, project, scopes)
    /\ \A projects \in (SUBSET ProjectObjects) \ {{}} : ~has_projects_access(a, projects)

\* C14 (as stated): every has_* query of NoAccess, has_role_in_organization
\* among them, answers false for every input, and scopes and permissions
\* are empty.
C14_AsStated ==
    access.kind = "NoAccess" =>
        /\ NoAccessDenies(access)
        /\ \A role \in OrganizationRoles, o \in Orgs, user_id \in UserIds :
            ~Access_has_role_in_organization(access, role, o, user_id)

\* C14: every has_* query of NoAccess answers false for every input and
\* scopes and permissions are empty, except has_role_in_organization, which
\* is true exactly when a user id is given and an active user's membership
\* with that role, user and organization exists.
C14_NoAccess ==
    access.kind = "NoAccess" =>
        /\ NoAccessDenies(access)
        /\ \A role \in OrganizationRoles, o \in Orgs, user_id \in UserIds :
            Access_has_role_in_organization(access, role, o, user_id)
                <=> /\ user_id = HumanUser.id
                    /\ db_member /= None
                    /\ o = db_member.organization_id
                    /\ role = db_member.role

\* C14 witness: a token of another organization gives NoAccess while a member
\* of the requested organization exists.
C14_Witness ==
    /\ AuthCall
    /\ access = NoAccess
    /\ db_member /= None
    /\ Some(db_member.organization_id) = request.organization
    /\ NoAccessDenies(access)

(***************************************************************************)
(* Properties of team and project scopes.                                  *)
(***************************************************************************)
\* C19: for every variant has_team_scope(team, scope) is false when
\* has_team_access(team) is false, and true when has_team_access(team) and
\* has_scope(scope) are both true.
C19_TeamScope ==
    \A team \in TeamObjects, scope \in SENTRY_SCOPES :
        /\ ~has_team_access(access, team) => ~has_team_scope(access, team, scope)
        /\ (has_team_access(access, team) /\ has_scope(access, scope))
                => has_team_scope(access, team, scope)

\* C20: an evaluator that carries an upper bound, an empty one included,
\* grants has_team_scope(team, s) only for s in the bound and
\* has_any_project_scope(project, S) only for S that meets the bound.
C20_TeamRoleCap ==
    HasUpperBound(access) =>
        /\ \A team \in TeamObjects, s \in SENTRY_SCOPES :
            has_team_scope(access, team, s) => s \in access.scopes_upper_bound.val
        /\ \A project \in ProjectObjects, scopes \in SUBSET SENTRY_SCOPES :
            has_any_project_scope(access, project, scopes)
                => scopes \cap access.scopes_upper_bound.val /= {}

(***************************************************************************)
(* Properties of one evaluator in use over a changing database.            *)
(***************************************************************************)
\* The evaluator as it would answer had it memoized nothing yet.
Fresh(a) == IF a.kind \in DbKinds THEN [a EXCEPT !.cached = NothingCached] ELSE a

\* C15: on one evaluator, a read of accessible_project_ids, accessible_team_ids,
\* team_ids_with_membership or project_ids_with_team_membership returns the
\* set its first read returned, whatever was added, removed or deactivated in
\* the database since.
C15_Idempotence ==
    \A name \in IdSets :
        observed.first_read[name] /= None =>
            getattr(access, name) = observed.first_read[name].val

\* accessible_project_ids was read, and the database has changed since so
\* that an evaluator reading it now for the first time would get another set.
C15_Witness ==
    /\ observed.first_read["accessible_project_ids"] /= None
    /\ getattr(Fresh(access), "accessible_project_ids")
            /= observed.first_read["accessible_project_ids"].val
    /\ getattr(access, "accessible_project_ids")
            = observed.first_read["accessible_project_ids"].val

\* The queries whose answer is computed from the evaluator alone.
StableCalls ==
    {call \in Calls :
        call.method \notin {"has_any_project_scope", "has_role_in_organization"}}

\* The call was made before: making it now computes nothing more.
Called(a, call) == after_call(a, call) = a

\* A call made again at once gives the answer it gave, and computes nothing.
Repeatable(calls) ==
    \A call \in calls :
        LET b == after_call(access, call)
        IN  answer(b, call) = answer(access, call) /\ Called(b, call)

\* A call makes no data-access call but the lookup of a derived set that
\* was not computed yet.
OnlyLazyLookups(calls) ==
    \A call \in calls :
        /\ data_access(access, call) = {}
        /\ \A k \in LookupKinds :
            after_call(access, call).lookups[k] /= access.lookups[k] =>
                k /= "permissions" /\ access.lookups[k] = 0

\* A step taken during the life of one evaluator keeps the answer of every
\* call made before.
KeepsAnswers(calls) ==
    (~Idle /\ request' = request) =>
        \A call \in calls :
            Called(access, call) =>
                /\ Called(access, call)'
                /\ answer(access, call)' = answer(access, call)

\* C16 (as stated): has_scope, has_permission, has_team_access,
\* has_team_scope, get_team_role, has_project_access, has_any_project_scope
\* and has_role_in_organization each give the same answer for the same
\* arguments on every call on one evaluator, and do no data access but the
\* first lazy computation of a derived set, whatever changes in the database.
C16_AsStated ==
    /\ [](~Idle => Repeatable(Calls) /\ OnlyLazyLookups(Calls))
    /\ [][KeepsAnswers(Calls)]_vars

\* C16 (amended): has_scope, has_permission, has_team_access, has_team_scope,
\* get_team_role and has_project_access each give the same answer for the
\* same arguments on every call on one evaluator, and do no data access but
\* the first lazy computation of a derived set, whatever changes in the
\* database.
C16_PureQueries ==
    /\ [](~Idle => Repeatable(StableCalls) /\ OnlyLazyLookups(StableCalls))
    /\ [][KeepsAnswers(StableCalls)]_vars

\* has_team_scope was called on a member's evaluator, and the database has
\* changed since so that an evaluator asked now for the first time would
\* answer otherwise.
C16_Witness ==
    /\ access.kind = "OrganizationMemberAccess"
    /\ \E call \in StableCalls :
        /\ call.method = "has_team_scope"
        /\ Called(access, call)
        /\ answer(access, call) /= answer(Fresh(access), call)

\* The derived sets whose first read runs each lookup.
ReadersOf(k) ==
    CASE k = "team_memberships" -> IdSets
      [] k = "team_projects" ->
            {"project_ids_with_team_membership", "accessible_project_ids"}
      [] k = "organization_teams" ->
            {"accessible_team_ids", "team_ids_with_membership"}
      [] k = "organization_projects" ->
            {"accessible_project_ids", "project_ids_with_team_membership"}
      [] k = "permissions" -> {"permissions"}

\* Each lookup of `ks` has run at most once, and only if a derived set it
\* computes was read.
AtMostOnceAndLazily(ks) ==
    \A k \in ks :
        /\ access.lookups[k] <= 1
        /\ access.lookups[k] > 0 =>
                \E name \in ReadersOf(k) : observed.first_read[name] /= None

\* A derived set that was read is read again without any lookup.
ReadAgainWithoutLookup ==
    \A name \in DerivedSets :
        observed.first_read[name] /= None =>
            read(access, name).lookups = access.lookups

\* C17 (as stated): for team memberships, team ids, project ids, accessible
\* team and project ids, scopes and permissions, the lookup runs at most once
\* per evaluator, never before the first read, and no read after the first
\* triggers a data-access call.
C17_AsStated ==
    ~Idle => AtMostOnceAndLazily(LookupKinds) /\ ReadAgainWithoutLookup

\* C17 (amended): for team memberships, team ids, project ids and accessible
\* team and project ids, the lookup runs at most once per evaluator, never
\* before the first read; the permissions lookup runs at most once; and no
\* read of a derived set after its first triggers a data-access call.
C17_LazyMemoization ==
    ~Idle =>
        /\ AtMostOnceAndLazily(LookupKinds \ {"permissions"})
        /\ access.lookups["permissions"] <= 1
        /\ ReadAgainWithoutLookup

\* A member's evaluator whose four id sets were all read, at the cost of one
\* lookup of the team memberships and one of their projects.
C17_Witness ==
    /\ access.kind = "OrganizationMemberAccess"
    /\ \A name \in IdSets : observed.first_read[name] /= None
    /\ access.lookups["team_memberships"] = 1
    /\ access.lookups["team_projects"] = 1

\* An elevated member's evaluator just built: the permissions were looked up
\* and nothing was read.
C17_EagerPermissions ==
    /\ access.kind = "OrganizationMemberAccess"
    /\ access.lookups["permissions"] = 1
    /\ observed = NothingObserved

(***************************************************************************)
(* Properties of the evaluator variants compared with one another.         *)
(***************************************************************************)
\* The evaluator from_rpc_member builds for the call that built `access`
\* with from_member: the context of the same user and organization, the same
\* scope list and elevation.
RemoteTwin ==
    from_rpc_member(
        RpcUserOrganizationContext(
            request.member.organization_id, request.member.user_id),
        request.scopes, request.is_superuser, request.is_staff, None)

\* C21: the evaluator of from_member and the evaluator of from_rpc_member
\* built from the same membership facts, scope list and elevation give the
\* same scopes, has_global_access, has_scope, has_team_access, has_team_scope,
\* has_project_access, has_any_project_scope, team_ids_with_membership and
\* accessible_project_ids.
C21_SameSemantics ==
    request.fn = "from_member" =>
        LET remote == RemoteTwin
        IN  /\ access_scopes(access) = access_scopes(remote)
            /\ has_global_access(access) = has_global_access(remote)
            /\ \A scope \in SENTRY_SCOPES : has_scope(access, scope) = has_scope(remote, scope)
            /\ \A team \in TeamObjects :
                /\ has_team_access(access, team) = has_team_access(remote, team)
                /\ \A scope \in SENTRY_SCOPES :
                    has_team_scope(access, team, scope)
                        = has_team_scope(remote, team, scope)
            /\ \A project \in ProjectObjects :
                /\ has_project_access(access, project)
                        = has_project_access(remote, project)
                /\ \A scopes \in SUBSET SENTRY_SCOPES :
                    has_any_project_scope(access, project, scopes)
                        = has_any_project_scope(remote, project, scopes)
            /\ team_ids_with_membership(access) = team_ids_with_membership(remote)
            /\ accessible_project_ids(access) = accessible_project_ids(remote)

\* Both evaluators of a member grant a project scope that only the role in
\* one of the project's teams holds.
C21_Witness ==
    /\ request.fn = "from_member"
    /\ access.kind = "OrganizationMemberAccess"
    /\ RemoteTwin.kind = "RpcBackedAccess"
    /\ \E project \in ProjectObjects :
        /\ ~has_scope(access, "project:write")
        /\ has_any_project_scope(access, project, {"project:write"})
        /\ has_any_project_scope(RemoteTwin, project, {"project:write"})

\* Membership simulated as equal to access.
SimulatedMembership(a) ==
    /\ team_ids_with_membership(a) = accessible_team_ids(a)
    /\ project_ids_with_team_membership(a) = accessible_project_ids(a)
    /\ \A team \in TeamObjects :
        has_team_membership(a, team) = has_team_access(a, team)
    /\ \A project \in ProjectObjects :
        has_project_membership(a, project) = has_project_access(a, project)

\* The member an evaluator was built with, None when it has none.
MemberOf(a) ==
    IF a.kind \in DbKinds THEN a.member
    ELSE IF a.rpc_user_organization_context.member = None THEN None
    ELSE db_member

\* The team and project memberships the database holds for an evaluator's
\* member.
RealTeamIds(a) == {omt.team : omt \in ActiveOmt(MemberOf(a))}

RealProjectIds(a) ==
    {p \in ProjectIds :
        Project(p).status = "ACTIVE" /\ ProjectTeams(p) \cap RealTeamIds(a) /= {}}

\* C22 as stated: every global-org-access evaluator, local or remote, has
\* team_ids_with_membership = accessible_team_ids,
\* project_ids_with_team_membership = accessible_project_ids,
\* has_team_membership = has_team_access and
\* has_project_membership = has_project_access.
C22_AsStated ==
    access.kind \in GlobalAccessKinds \cup GlobalMembershipKinds =>
        SimulatedMembership(access)

\* C22, amended: the simulated-membership evaluators (built for an installed
\* service principal) have membership equal to access; the plain
\* global-org-access evaluators (bearer credential, elevated session) have the
\* real team memberships of their member, none without a member, while their
\* accessible ids are all the active teams and projects of the organization.
C22_SimulatedMembership ==
    /\ access.kind \in GlobalMembershipKinds => SimulatedMembership(access)
    /\ access.kind \in GlobalAccessKinds =>
        /\ team_ids_with_membership(access) = RealTeamIds(access)
        /\ project_ids_with_team_membership(access) = RealProjectIds(access)
        /\ \A team \in TeamObjects :
            has_team_membership(access, team) = (team.id \in RealTeamIds(access))
        /\ \A project \in ProjectObjects :
            has_project_membership(access, project)
                = (project.id \in RealProjectIds(access))

\* A service principal's evaluator is a member of the teams and projects it
\* can reach.
C22_Witness ==
    /\ access.kind \in GlobalMembershipKinds
    /\ team_ids_with_membership(access) /= {}
    /\ project_ids_with_team_membership(access) /= {}
    /\ \E team \in TeamObjects : has_team_membership(access, team)
    /\ \E team \in TeamObjects : ~has_team_access(access, team)

\* The ids of the teams and projects an evaluator's access checks accept.
TeamIdsWithAccess(a) == {team.id : team \in {t \in AllTeams : has_team_access(a, t)}}

ProjectIdsWithAccess(a) ==
    {project.id : project \in {p \in AllProjects : has_project_access(a, p)}}

\* C23: for every DbAccess-derived evaluator accessible_team_ids is exactly
\* the set of ids of the teams for which has_team_access is true, and
\* accessible_project_ids exactly the set of ids of the projects for which
\* has_project_access is true.
C23_AccessibleIdsMatchAccess ==
    access.kind \in DbKinds =>
        /\ accessible_team_ids(access) = TeamIdsWithAccess(access)
        /\ accessible_project_ids(access) = ProjectIdsWithAccess(access)

(***************************************************************************)
(* has_any_project_scope against the membership data.                      *)
(***************************************************************************)
\* The team-roles capability of the organization of an evaluator's member.
TeamRolesEnabled(a) ==
    /\ MemberOf(a) /= None
    /\ MemberOf(a).organization_id \in db_team_roles

\* Some team both of the project and of the caller's memberships grants a
\* requested scope through its team role.
GrantedByTeamRole(a, project, scopes) ==
    \E omt \in ActiveOmt(MemberOf(a)) :
        /\ omt.team \in project.teams
        /\ TeamRoleScopes(omt.role) \cap scopes /= {}

DirectlyHeld(a, scopes) == \E scope \in scopes : has_scope(a, scope)

\* C24: has_any_project_scope(project, scopes) is false without access to the
\* project; true when a requested scope is held directly; otherwise true only
\* when the team-roles capability is enabled, a member exists and a team both
\* of the project and of the caller's memberships grants a requested scope
\* through its team role; with the capability disabled it is exactly
\* has_project_access and some requested scope held.
C24_AnyProjectScope ==
    access.kind \in DbKinds \cup RpcKinds =>
        \A project \in ProjectObjects, scopes \in SUBSET SENTRY_SCOPES :
            LET result == has_any_project_scope(access, project, scopes)
                reachable == has_project_access(access, project)
            IN  /\ ~reachable => ~result
                /\ reachable /\ DirectlyHeld(access, scopes) => result
                /\ result /\ ~DirectlyHeld(access, scopes) =>
                    /\ TeamRolesEnabled(access)
                    /\ GrantedByTeamRole(access, project, scopes)
                /\ ~TeamRolesEnabled(access) =>
                    result = (reachable /\ DirectlyHeld(access, scopes))

\* A remote member's evaluator grants a project scope it does not hold
\* directly, through the role in one of the project's teams.
C24_Witness ==
    /\ access.kind = "RpcBackedAccess"
    /\ TeamRolesEnabled(access)
    /\ \E project \in ProjectObjects :
        /\ ~DirectlyHeld(access, {"project:write"})
        /\ GrantedByTeamRole(access, project, {"project:write"})
        /\ has_any_project_scope(access, project, {"project:write"})

(***************************************************************************)
(* Isolation between organizations.                                        *)
(***************************************************************************)
\* The organization the evaluator of the current request was built for, None
\* when the factory was given no organization.
RequestOrganization ==
    CASE request.fn = "from_member" -> Some(request.member.organization_id)
      [] request.fn = "from_rpc_member" ->
            Some(request.rpc_user_organization_context.organization.id)
      [] OTHER -> request.organization

\* C25: an evaluator built for an organization by any factory path other than
\* the system credential never grants has_team_access or has_project_access
\* for a team or project of another organization, whatever its scopes,
\* permissions and global-access flag.
C25_OrganizationIsolation ==
    ~Idle /\ access.kind /= "SystemAccess" =>
        /\ \A team \in TeamObjects :
            has_team_access(access, team)
                => RequestOrganization = Some(team.organization_id)
        /\ \A project \in ProjectObjects :
            has_project_access(access, project)
                => RequestOrganization = Some(project.organization_id)

\* A member with global access reaches a team of the organization without
\* being in it, and no team or project of another organization.
C25_Witness ==
    /\ access.kind = "OrganizationMemberAccess"
    /\ has_global_access(access)
    /\ \E team \in TeamObjects :
        /\ has_team_access(access, team)
        /\ team.id \notin team_ids_with_membership(access)
    /\ \E team \in TeamObjects :
        /\ team.status = "ACTIVE"
        /\ Some(team.organization_id) /= RequestOrganization
        /\ ~has_team_access(access, team)

(***************************************************************************)
(* sentry.issues.escalating.escalating: _process_groups.                   *)
(***************************************************************************)
\* The longest list of groups handed to _process_groups.
MaxGroups == 3

\* The page size of Snuba, 10000 in the source, scaled down so that the groups
\* of one project can fill a page.
ELEMENTS_PER_SNUBA_PAGE == 300

BUCKETS_PER_GROUP == 168

\* The lists of Group objects: the id, project_id and project.organization_id
\* of each, every project in one organization.
GroupLists ==
    UNION {
        {[i \in 1 .. n |->
            [id |-> i, project_id |-> project_of[i],
             organization_id |-> owner[project_of[i]]]] :
                project_of \in [1 .. n -> ProjectIds],
                owner \in [ProjectIds -> Orgs]} :
        n \in 0 .. MaxGroups}

\* sorted(keys)
RECURSIVE sorted(_)
sorted(keys) ==
    IF keys = {} THEN <<>>
    ELSE LET least == CHOOSE k \in keys : \A other \in keys : k <= other
         IN  <<least>> \o sorted(keys \ {least})

extract_project_and_group_ids(groups) ==
    [project_id \in {groups[i].project_id : i \in DOMAIN groups} |->
        LET OfProject(group) == group.project_id = project_id
            of_project == SelectSeq(groups, OfProject)
        IN  [i \in 1 .. Len(of_project) |-> of_project[i].id]]

extract_organization_and_project_and_group_ids(groups) ==
    LET group_ids_by_project == extract_project_and_group_ids(groups)
    IN  [organization_id \in {groups[i].organization_id : i \in DOMAIN groups} |->
            [project_id \in
                {groups[i].project_id :
                    i \in {j \in DOMAIN groups :
                            groups[j].organization_id = organization_id}} |->
                group_ids_by_project[project_id]]]

\* The iterations of the two nested loops, in order: the sorted organization
\* ids, and for each the sorted project ids.
RECURSIVE iteration_order(_, _)
iteration_order(by_organization, organization_ids) ==
    IF organization_ids = <<>> THEN <<>>
    ELSE LET organization_id == Head(organization_ids)
             proj_ids == sorted(DOMAIN by_organization[organization_id])
         IN  [i \in 1 .. Len(proj_ids) |->
                [organization_id |-> organization_id, proj_id |-> proj_ids[i]]]
             \o iteration_order(by_organization, Tail(organization_ids))

\* Variant of the test that keeps a project pending, without the test for
\* the last project of the organization: C26 depends on that test.
keep_pending_until_full(processed_projects, total_projects_count, group_count) ==
    group_count * BUCKETS_PER_GROUP < ELEMENTS_PER_SNUBA_PAGE

\* The test that keeps a project pending for the next call of
\* _query_with_pagination.
keep_pending(processed_projects, total_projects_count, group_count) ==
    /\ processed_projects < total_projects_count
    /\ group_count * BUCKETS_PER_GROUP < ELEMENTS_PER_SNUBA_PAGE

ProcessGroupsOrder ==
    LET by_organization ==
            extract_organization_and_project_and_group_ids(process_groups.groups)
    IN  iteration_order(by_organization, sorted(DOMAIN by_organization))

InitProcessGroups ==
    /\ InitAccess /\ NoU2f /\ NoIssues
    /\ \E groups \in GroupLists :
        process_groups =
            [groups |-> groups, position |-> 1, proj_ids |-> <<>>, group_ids |-> <<>>,
             processed_projects |-> 0, queries |-> <<>>, returned |-> FALSE]

\* One iteration of the inner loop of _process_groups.
ProcessProject ==
    /\ process_groups /= None
    /\ ~process_groups.returned
    /\ process_groups.position <= Len(ProcessGroupsOrder)
    /\ LET iteration == ProcessGroupsOrder[process_groups.position]
           group_ids_by_project ==
                extract_organization_and_project_and_group_ids(
                    process_groups.groups)[iteration.organization_id]
           total_projects_count == Cardinality(DOMAIN group_ids_by_project)
           project_group_ids == group_ids_by_project[iteration.proj_id]
           proj_ids == Append(process_groups.proj_ids, iteration.proj_id)
           group_ids == process_groups.group_ids \o project_group_ids
           processed_projects == process_groups.processed_projects + 1
       IN  process_groups' =
                IF keep_pending(
                        processed_projects, total_projects_count, Len(project_group_ids))
                THEN [process_groups EXCEPT
                        !.position = @ + 1,
                        !.proj_ids = proj_ids,
                        !.group_ids = group_ids,
                        !.processed_projects = processed_projects]
                ELSE [process_groups EXCEPT
                        !.position = @ + 1,
                        !.proj_ids = <<>>,
                        !.group_ids = <<>>,
                        !.processed_projects = processed_projects,
                        !.queries =
                            Append(@, [organization_id |-> iteration.organization_id,
                                       project_ids |-> proj_ids,
                                       group_ids |-> group_ids])]
    /\ UNCHANGED <<access_vars, u2f, issue_vars>>

\* _process_groups returns: at once for no groups, else after the loops.
ReturnResults ==
    /\ process_groups /= None
    /\ ~process_groups.returned
    /\ process_groups.position > Len(ProcessGroupsOrder)
    /\ process_groups' = [process_groups EXCEPT !.returned = TRUE]
    /\ UNCHANGED <<access_vars, u2f, issue_vars>>

NextProcessGroups ==
    \/ ProcessProject
    \/ ReturnResults

SpecProcessGroups == InitProcessGroups /\ [][NextProcessGroups]_vars

\* The places of a group id in the calls of _query_with_pagination.
QueryPlaces(group_id) ==
    {place \in (DOMAIN process_groups.queries) \X (1 .. MaxGroups) :
        /\ place[2] \in DOMAIN process_groups.queries[place[1]].group_ids
        /\ process_groups.queries[place[1]].group_ids[place[2]] = group_id}

\* C26: _process_groups queries every group exactly once: each group id is in
\* exactly one call of _query_with_pagination, all groups of one project are
\* in the same call, no call mixes projects of different organizations, and
\* the pending lists are flushed by the last project of each organization.
C26_EveryGroupQueriedOnce ==
    process_groups /= None =>
        LET groups == process_groups.groups
            queries == process_groups.queries
            order == ProcessGroupsOrder
        IN  /\ \A q \in DOMAIN queries, i \in DOMAIN groups :
                (\E k \in DOMAIN queries[q].project_ids :
                    queries[q].project_ids[k] = groups[i].project_id)
                    => queries[q].organization_id = groups[i].organization_id
            /\ \A k \in DOMAIN process_groups.proj_ids :
                /\ process_groups.position <= Len(order)
                /\ \A i \in DOMAIN groups :
                    groups[i].project_id = process_groups.proj_ids[k]
                        => groups[i].organization_id
                                = order[process_groups.position].organization_id
            /\ process_groups.returned =>
                /\ process_groups.proj_ids = <<>>
                /\ process_groups.group_ids = <<>>
                /\ \A i \in DOMAIN groups : Cardinality(QueryPlaces(groups[i].id)) = 1
                /\ \A i, j \in DOMAIN groups :
                    groups[i].project_id = groups[j].project_id =>
                        {place[1] : place \in QueryPlaces(groups[i].id)}
                            = {place[1] : place \in QueryPlaces(groups[j].id)}

\* A call that returned after a query of two projects of one organization and
\* a query for another organization.
C26_Witness ==
    /\ process_groups /= None
    /\ process_groups.returned
    /\ \E q \in DOMAIN process_groups.queries :
        Len(process_groups.queries[q].project_ids) = 2
    /\ \E q, r \in DOMAIN process_groups.queries :
        process_groups.queries[q].organization_id
            /= process_groups.queries[r].organization_id

(***************************************************************************)
(* sentry.auth.authenticators.u2f: the devices of a U2fInterface.          *)
(***************************************************************************)
\* The longest list of devices, and the number of WebAuthn credentials.
MaxDevices == 3

MaxCredential == 2

CredentialIds == 1 .. MaxCredential

\* urlsafe_b64encode(credential_id).decode("ascii") for the one-byte
\* credential ids 1, 2, 3, ...: padded base64.
urlsafe_b64encode(credential_id) ==
    CASE credential_id = 1 -> "AQ=="
      [] credential_id = 2 -> "Ag=="
      [] credential_id = 3 -> "Aw=="
      [] OTHER -> "BA=="

\* The key handles of devices registered with u2f-api: websafe base64, which
\* has no padding.
KeyHandles == {"AQ"}

\* device["binding"]: an AuthenticatorData of a WebAuthn registration, or the
\* dict of a u2f-api registration.
AuthenticatorData(credential_id) ==
    [type |-> "AuthenticatorData", credential_id |-> credential_id]

LegacyBinding(keyHandle) == [type |-> "dict", keyHandle |-> keyHandle]

LegacyDevices == {[name |-> "Security Key", binding |-> LegacyBinding(k)] : k \in KeyHandles}

\* The keys a caller may pass: the key of some device, or of none.
DeviceKeys == {urlsafe_b64encode(c) : c \in CredentialIds} \cup KeyHandles \cup {"Ag"}

DeviceNames == {None, Some("YubiKey")}

decode_credential_id(device) == urlsafe_b64encode(device.binding.credential_id)

\* self.config.get("devices", ())
config_devices(config) == IF config.devices = None THEN <<>> ELSE config.devices.val

get_kept_devices(config, key) ==
    LET key_does_not_match(device) ==
            IF device.binding.type = "AuthenticatorData"
            THEN decode_credential_id(device) /= key
            ELSE device.binding.keyHandle /= key
    IN  SelectSeq(config_devices(config), key_does_not_match)

generate_new_config == [devices |-> None]

\* Variant of remove_u2f_device that stores the kept devices even when none
\* is left: C27 depends on the test of the kept list.
remove_u2f_device_unguarded(config, key) ==
    [config |-> [config EXCEPT !.devices = Some(get_kept_devices(config, key))],
     returned |-> TRUE]

\* remove_u2f_device: the config after the call and the value returned.
remove_u2f_device(config, key) ==
    LET devices == get_kept_devices(config, key)
    IN  IF devices /= <<>>
        THEN [config |-> [config EXCEPT !.devices = Some(devices)], returned |-> TRUE]
        ELSE [config |-> config, returned |-> FALSE]

\* try_enroll: the binding register_complete returns is appended.
try_enroll(config, device_name, binding) ==
    LET name == IF device_name = None THEN "Security Key" ELSE device_name.val
    IN  [config EXCEPT
            !.devices = Some(Append(config_devices(config),
                                    [name |-> name, binding |-> binding]))]

\* An interface with a new config, or with the config of an authenticator
\* enrolled with u2f-api.
InitU2f ==
    /\ InitAccess /\ NoProcessGroups /\ NoIssues
    /\ \E config \in {generate_new_config}
                        \cup {[devices |-> Some(<<device>>)] : device \in LegacyDevices} :
        u2f = [config |-> config, last_call |-> [fn |-> "__init__"]]

TryEnroll ==
    /\ u2f /= None
    /\ Len(config_devices(u2f.config)) < MaxDevices
    /\ \E credential_id \in CredentialIds, device_name \in DeviceNames :
        u2f' = [config |-> try_enroll(u2f.config, device_name,
                                      AuthenticatorData(credential_id)),
                last_call |-> [fn |-> "try_enroll"]]
    /\ UNCHANGED <<access_vars, process_groups, issue_vars>>

RemoveU2fDevice ==
    /\ u2f /= None
    /\ \E key \in DeviceKeys :
        LET result == remove_u2f_device(u2f.config, key)
        IN  u2f' = [config |-> result.config,
                    last_call |-> [fn |-> "remove_u2f_device", key |-> key,
                                   before |-> u2f.config,
                                   returned |-> result.returned]]
    /\ UNCHANGED <<access_vars, process_groups, issue_vars>>

NextU2f ==
    \/ TryEnroll
    \/ RemoveU2fDevice

SpecU2f == InitU2f /\ [][NextU2f]_vars

\* The key that removes a device.
KeyOf(device) ==
    IF device.binding.type = "AuthenticatorData"
    THEN urlsafe_b64encode(device.binding.credential_id)
    ELSE device.binding.keyHandle

\* Removing the key would leave no device.
WouldLeaveNoDevice(config, key) ==
    \A i \in DOMAIN config_devices(config) : KeyOf(config_devices(config)[i]) = key

StaysEnrolled ==
    (u2f /= None /\ config_devices(u2f.config) /= <<>>)
        => config_devices(u2f'.config) /= <<>>

\* C27: remove_u2f_device never removes the last device: a device list that is
\* not empty stays so after every try_enroll and remove_u2f_device, and
\* remove_u2f_device returns False, leaving the list unchanged, exactly when
\* removing the key would leave no device.
C27_LastDeviceKept ==
    /\ [][StaysEnrolled]_vars
    /\ [](u2f /= None /\ u2f.last_call.fn = "remove_u2f_device" =>
            /\ u2f.last_call.returned
                    = ~WouldLeaveNoDevice(u2f.last_call.before, u2f.last_call.key)
            /\ ~u2f.last_call.returned => u2f.config = u2f.last_call.before
            /\ u2f.last_call.returned =>
                \A i \in DOMAIN config_devices(u2f.config) :
                    KeyOf(config_devices(u2f.config)[i]) /= u2f.last_call.key)

\* The removal of the key of the two remaining devices was refused, after
\* another device was removed.
C27_Witness ==
    /\ u2f /= None
    /\ u2f.last_call.fn = "remove_u2f_device"
    /\ ~u2f.last_call.returned
    /\ Len(config_devices(u2f.config)) = 2
    /\ WouldLeaveNoDevice(u2f.config, u2f.last_call.key)

(***************************************************************************)
(* sentry.issues.escalating.escalating: manage_issue_states.               *)
(***************************************************************************)
\* The number of groups, and of manage_issue_states calls.
MaxIssueGroup == 2

MaxCalls == 2

IssueGroupIds == 1 .. MaxIssueGroup

\* Group rows as users leave them: unresolved, ignored, resolved, or being
\* deleted.
Unresolved(substatus) == [status |-> "UNRESOLVED", substatus |-> Some(substatus)]

UserRows ==
    {Unresolved("ONGOING"),
     [status |-> "IGNORED", substatus |-> Some("UNTIL_ESCALATING")],
     [status |-> "RESOLVED", substatus |-> None],
     [status |-> "PENDING_DELETION", substatus |-> None]}

\* GroupInboxReason: the three reasons manage_issue_states handles, and one
\* it does not.
SupportedReasons == {"ESCALATING", "ONGOING", "UNIGNORED"}

GroupInboxReasons == SupportedReasons \cup {"NEW"}

\* Variant of the status filter that lets the ESCALATING update match a
\* resolved group as well: C28 depends on the filter of each branch.
source_statuses_alike(group_inbox_reason) == {"RESOLVED", "IGNORED"}

\* The status filter of the conditional update of each branch.
source_statuses(group_inbox_reason) ==
    IF group_inbox_reason = "ESCALATING" THEN {"IGNORED"}
    ELSE {"RESOLVED", "IGNORED"}

\* The status and substatus each branch writes.
target_row(group_inbox_reason) ==
    IF group_inbox_reason = "ESCALATING" THEN Unresolved("ESCALATING")
    ELSE Unresolved("ONGOING")

\* Variant of the update's filter that tests the status of the Group object
\* the caller holds: C29 depends on the filter being evaluated on the row.
status_of_object(frame) == frame.group.status

\* The status the filter of Group.objects.filter(id=group.id, status=...)
\* sees: the stored one.
filtered_status(frame) == db_group[frame.group.id].status

\* What a call produces once its update matched a row.
Effect(call, kind, group_id, detail) ==
    [call |-> call, kind |-> kind, group |-> group_id, detail |-> detail]

side_effects(call, group_id, group_inbox_reason) ==
    {Effect(call, "inbox", group_id, group_inbox_reason),
     Effect(call, "history", group_id, group_inbox_reason),
     Effect(call, "activity", group_id,
            IF group_inbox_reason = "ESCALATING" THEN "SET_ESCALATING"
            ELSE "SET_UNRESOLVED")}
    \cup (IF group_inbox_reason \in {"ESCALATING", "UNIGNORED"}
          THEN {Effect(call, "status_sync", group_id, "kick_off_status_syncs")}
          ELSE {})
    \cup (IF group_inbox_reason = "ESCALATING"
          THEN {Effect(call, "signal", group_id, "issue_escalating"),
                Effect(call, "priority", group_id, "ESCALATING")}
          ELSE {})

\* The Group object a caller holds: loaded from the row.
GroupObject(group_id) ==
    [id |-> group_id, status |-> db_group[group_id].status,
     substatus |-> db_group[group_id].substatus]

\* The conditional update and what follows it in the frame of a call.
update_group(frame) ==
    LET matched == filtered_status(frame) \in source_statuses(frame.reason)
        row == target_row(frame.reason)
    IN  [rows |-> IF matched THEN [db_group EXCEPT ![frame.group.id] = row]
                  ELSE db_group,
         frame |-> [frame EXCEPT
                        !.updated = matched,
                        !.group = IF matched
                                  THEN [@ EXCEPT !.status = row.status,
                                                 !.substatus = row.substatus]
                                  ELSE @,
                        !.pc = IF matched THEN "effects" ELSE "done"]]

InitIssues ==
    /\ InitAccess /\ NoProcessGroups /\ NoU2f
    /\ db_group \in [IssueGroupIds -> UserRows]
    /\ db_snooze = {}
    /\ effects = {}
    /\ running = <<>>
    /\ task = None

\* A user resolves, ignores, unresolves or deletes a group.
DbSetGroupStatus ==
    /\ \E group_id \in IssueGroupIds, row \in UserRows :
        /\ db_group[group_id] /= row
        /\ db_group' = [db_group EXCEPT ![group_id] = row]
    /\ UNCHANGED <<access_vars, process_groups, u2f, db_snooze, effects, running, task>>

Finished(c) == running[c].pc \in {"done", "raised"}

\* manage_issue_states is entered with a Group object and a reason, next to
\* the calls in progress.
StartCall(in_progress, group_ids, reasons) ==
    /\ Len(in_progress) < MaxCalls
    /\ \E group_id \in group_ids, group_inbox_reason \in reasons :
        running' = Append(in_progress,
                          [group |-> GroupObject(group_id),
                           reason |-> group_inbox_reason,
                           pc |-> "update", updated |-> FALSE])
    /\ UNCHANGED <<access_vars, process_groups, u2f, db_group, db_snooze, task>>

\* The conditional update of the branch of the reason.
UpdateGroup ==
    /\ \E c \in DOMAIN running :
        /\ running[c].pc = "update"
        /\ running[c].reason \in SupportedReasons
        /\ db_group' = update_group(running[c]).rows
        /\ running' = [running EXCEPT ![c] = update_group(running[c]).frame]
    /\ UNCHANGED <<access_vars, process_groups, u2f, db_snooze, effects, task>>

\* raise NotImplementedError
RaiseNotImplemented ==
    /\ \E c \in DOMAIN running :
        /\ running[c].pc = "update"
        /\ running[c].reason \notin SupportedReasons
        /\ running' = [running EXCEPT ![c].pc = "raised"]
    /\ UNCHANGED <<access_vars, process_groups, u2f, db_group, db_snooze, effects, task>>

\* The body of "if updated": post_save unless the option
\* groups.enable-post-update-signal is set, then the inbox entry, the history
\* record, the tasks, signals and the activity of the branch.
SideEffects ==
    /\ \E c \in DOMAIN running, enable_post_update_signal \in BOOLEAN :
        /\ running[c].pc = "effects"
        /\ effects' =
                effects
                \cup side_effects(c, running[c].group.id, running[c].reason)
                \cup (IF enable_post_update_signal THEN {}
                      ELSE {Effect(c, "signal", running[c].group.id, "post_save")})
        /\ running' = [running EXCEPT ![c].pc = "done"]
    /\ UNCHANGED <<access_vars, process_groups, u2f, db_group, db_snooze, task>>

\* Calls made one after the other, for any reason, while users change the
\* groups.
SetGroupStatus == DbSetGroupStatus /\ task = None

\* The call before has returned; what is produced is recorded from this call
\* on.
StartNextCall ==
    /\ \A c \in DOMAIN running : Finished(c)
    /\ StartCall(<<>>, IssueGroupIds, GroupInboxReasons)
    /\ effects' = {}

NextIssueStates ==
    \/ SetGroupStatus
    \/ StartNextCall
    \/ UpdateGroup
    \/ RaiseNotImplemented
    \/ SideEffects

SpecIssueStates == InitIssues /\ [][NextIssueStates]_vars

\* Calls made at the same time for one group with one reason, and nothing
\* else writing the group.
StartSameCall ==
    /\ StartCall(running,
                 IF running = <<>> THEN IssueGroupIds ELSE {running[1].group.id},
                 IF running = <<>> THEN SupportedReasons ELSE {running[1].reason})
    /\ UNCHANGED effects

NextIssueCalls ==
    \/ StartSameCall
    \/ UpdateGroup
    \/ SideEffects

SpecIssueCalls == InitIssues /\ [][NextIssueCalls]_vars

\* The call that takes its first step in this transition.
Updating(c) ==
    /\ c \in DOMAIN running
    /\ running[c].pc = "update"
    /\ running'[c].pc /= "update"

\* One call's first step changes its group only from an allowed source
\* status, and nothing when the reason is not supported.
FromAllowedSource(c) ==
    LET group_id == running[c].group.id
        group_inbox_reason == running[c].reason
        before == db_group[group_id]
        after == db_group'[group_id]
    IN  /\ \A other \in IssueGroupIds \ {group_id} : db_group'[other] = db_group[other]
        /\ effects' = effects
        /\ group_inbox_reason = "ESCALATING" =>
            after = IF before.status = "IGNORED"
                    THEN Unresolved("ESCALATING") ELSE before
        /\ group_inbox_reason \in {"ONGOING", "UNIGNORED"} =>
            after = IF before.status \in {"RESOLVED", "IGNORED"}
                    THEN Unresolved("ONGOING") ELSE before
        /\ group_inbox_reason \notin SupportedReasons =>
            after = before /\ running'[c].pc = "raised"
        /\ running'[c].updated = (after /= before)

\* Something is produced only by a call whose update matched, for its group.
ProducedAfterUpdate ==
    \A effect \in effects' \ effects :
        /\ effect.call \in DOMAIN running
        /\ running[effect.call].pc = "effects"
        /\ running[effect.call].updated
        /\ running[effect.call].group.id = effect.group

\* C28: manage_issue_states changes a group only from the allowed source
\* states: ESCALATING only IGNORED to UNRESOLVED/ESCALATING; ONGOING and
\* UNIGNORED only RESOLVED or IGNORED to UNRESOLVED/ONGOING; in every other
\* stored status the group is unchanged and no inbox entry, history record,
\* activity or status-sync task is produced; any other reason raises
\* NotImplementedError and changes nothing.
C28_AllowedSourceStates ==
    /\ [][\A c \in 1 .. MaxCalls : Updating(c) => FromAllowedSource(c)]_vars
    /\ [][ProducedAfterUpdate]_vars
    /\ [](\A c \in DOMAIN running :
            ~running[c].updated => \A effect \in effects : effect.call /= c)

\* A call with reason ESCALATING for a group that was ignored when the call
\* was made and resolved when it updated ended without update and without
\* effects.
C28_Witness ==
    /\ Len(running) = 1
    /\ running[1].reason = "ESCALATING"
    /\ running[1].group.status = "IGNORED"
    /\ running[1].pc = "done"
    /\ ~running[1].updated
    /\ db_group[running[1].group.id].status = "RESOLVED"
    /\ effects = {}

\* C29: of the calls of manage_issue_states made concurrently or repeatedly
\* for the same group with the same reason, at most one performs the
\* transition and its side effects; every later call finds the group
\* UNRESOLVED and does nothing.
C29_AtMostOneTransition ==
    /\ Cardinality({c \in DOMAIN running : running[c].updated}) <= 1
    /\ \A kind \in {"inbox", "history", "activity"} :
        Cardinality({effect \in effects : effect.kind = kind}) <= 1
    /\ \A c \in DOMAIN running :
        ~running[c].updated => \A effect \in effects : effect.call /= c
    /\ (\E c \in DOMAIN running : running[c].updated) =>
        \A c \in DOMAIN running : db_group[running[c].group.id].status = "UNRESOLVED"

\* Two calls were in progress for an ignored group; one made the transition
\* and its effects, the other found the group unresolved.
C29_Witness ==
    /\ Len(running) = 2
    /\ running[1].group.status = "IGNORED"
    /\ running[1].pc = "done" /\ ~running[1].updated
    /\ running[2].pc = "done" /\ running[2].updated
    /\ \E effect \in effects : effect.call = 2 /\ effect.kind = "inbox"

(***************************************************************************)
(* sentry.tasks.clear_expired_snoozes.                                     *)
(***************************************************************************)
\* The slice of the snooze query, [:1000] in the source, scaled down.
SNOOZE_BATCH == 1

\* GroupSnooze.until: None for a snooze that ends on a count, else a time that
\* has passed or not.
SnoozeUntil == {None, Some("past"), Some("future")}

\* The GroupSnooze rows: at most one for a group.
SnoozeTables ==
    {{[id |-> group_id, group |-> group_id, until |-> until_of[group_id]] :
        group_id \in snoozed} :
            snoozed \in SUBSET IssueGroupIds, until_of \in [IssueGroupIds -> SnoozeUntil]}

\* GroupSnooze.objects.filter(until__lte=timezone.now())
expired_snoozes == {gs \in db_snooze : gs.until /= None /\ gs.until.val = "past"}

\* The slices [:SNOOZE_BATCH] of a query without ordering.
first_rows(rows) ==
    {slice \in SUBSET rows :
        Cardinality(slice) = IF Cardinality(rows) < SNOOZE_BATCH
                             THEN Cardinality(rows) ELSE SNOOZE_BATCH}

\* Group.objects.filter(id__in=groups_with_snoozes.keys(), status=IGNORED),
\* as a list of Group objects.
select_ignored_groups(groupsnooze_list) ==
    LET ids == {group_id \in {gs.group : gs \in groupsnooze_list} :
                    db_group[group_id].status = "IGNORED"}
        ordered == sorted(ids)
    IN  [i \in 1 .. Len(ordered) |-> GroupObject(ordered[i])]

InitSnoozes ==
    /\ InitAccess /\ NoProcessGroups /\ NoU2f
    /\ db_group \in [IssueGroupIds -> UserRows]
    /\ db_snooze \in SnoozeTables
    /\ effects = {}
    /\ running = <<>>
    /\ task = [pc |-> "select_snoozes", groupsnooze_list |-> {},
               ignored_groups |-> <<>>, i |-> 1]

ConcurrentSetGroupStatus == DbSetGroupStatus /\ task /= None

SelectSnoozes ==
    /\ task /= None
    /\ task.pc = "select_snoozes"
    /\ \E groupsnooze_list \in first_rows(expired_snoozes) :
        task' = [task EXCEPT !.groupsnooze_list = groupsnooze_list,
                             !.pc = "select_groups"]
    /\ UNCHANGED <<access_vars, process_groups, u2f, db_group, db_snooze, effects, running>>

SelectIgnoredGroups ==
    /\ task /= None
    /\ task.pc = "select_groups"
    /\ task' = [task EXCEPT
                    !.ignored_groups = select_ignored_groups(task.groupsnooze_list),
                    !.pc = "delete"]
    /\ UNCHANGED <<access_vars, process_groups, u2f, db_group, db_snooze, effects, running>>

\* GroupSnooze.objects.filter(id__in=group_snooze_ids).delete()
DeleteSnoozes ==
    /\ task /= None
    /\ task.pc = "delete"
    /\ db_snooze' = {gs \in db_snooze : gs.id \notin {sel.id : sel \in task.groupsnooze_list}}
    /\ task' = [task EXCEPT !.pc = "loop"]
    /\ UNCHANGED <<access_vars, process_groups, u2f, db_group, effects, running>>

\* manage_issue_states(group, GroupInboxReason.ONGOING) for the next group of
\* the list, with the Group object read before.
CallManageIssueStates ==
    /\ task /= None
    /\ task.pc = "loop"
    /\ task.i <= Len(task.ignored_groups)
    /\ running' = <<[group |-> task.ignored_groups[task.i], reason |-> "ONGOING",
                     pc |-> "update", updated |-> FALSE]>>
    /\ task' = [task EXCEPT !.pc = "called"]
    /\ UNCHANGED <<access_vars, process_groups, u2f, db_group, db_snooze, effects>>

\* issue_unignored.send_robust(...) once manage_issue_states has returned.
SendIssueUnignored ==
    /\ task /= None
    /\ task.pc = "called"
    /\ Finished(1)
    /\ effects' = effects
                    \cup {Effect(0, "signal", running[1].group.id, "issue_unignored")}
    /\ task' = [task EXCEPT !.i = @ + 1, !.pc = "loop"]
    /\ UNCHANGED <<access_vars, process_groups, u2f, db_group, db_snooze, running>>

ReturnFromTask ==
    /\ task /= None
    /\ task.pc = "loop"
    /\ task.i > Len(task.ignored_groups)
    /\ task' = [task EXCEPT !.pc = "done"]
    /\ UNCHANGED <<access_vars, process_groups, u2f, db_group, db_snooze, effects, running>>

NextSnoozes ==
    \/ ConcurrentSetGroupStatus
    \/ SelectSnoozes
    \/ SelectIgnoredGroups
    \/ DeleteSnoozes
    \/ CallManageIssueStates
    \/ UpdateGroup
    \/ SideEffects
    \/ SendIssueUnignored
    \/ ReturnFromTask

SpecSnoozes == InitSnoozes /\ [][NextSnoozes]_vars

\* The task's update moves a group only if its stored status is IGNORED.
MovesOnlyIgnored ==
    \A c \in 1 .. MaxCalls :
        Updating(c) =>
            LET group_id == running[c].group.id
            IN  IF db_group[group_id].status = "IGNORED"
                THEN db_group'[group_id] = Unresolved("ONGOING")
                ELSE db_group'[group_id] = db_group[group_id]

\* issue_unignored is sent for a group only if the update found it IGNORED.
SignalsOnlyIgnored ==
    \A effect \in effects' \ effects :
        effect.detail = "issue_unignored" => running[1].updated

\* C30: clear_expired_snoozes un-ignores only ignored groups: in every
\* interleaving with other status changes a group whose snooze expired is
\* moved to UNRESOLVED/ONGOING, and issue_unignored is sent for it, only if
\* its stored status is IGNORED at the moment of the update; a group that is
\* not IGNORED then keeps its status; the expired snooze rows selected by the
\* task are deleted in all cases.
C30_OnlyIgnoredUnignored ==
    /\ [][MovesOnlyIgnored]_vars
    /\ [][SignalsOnlyIgnored]_vars
    /\ [](task /= None /\ task.pc \in {"loop", "called", "done"} =>
            task.groupsnooze_list \cap db_snooze = {})

====
